---- MODULE Spec2Model ----
(***************************************************************************)
(* A model of the "rooms" program: rooms are git worktrees kept below a     *)
(* rooms directory, each with an optional PTY session.                     *)
(*                                                                         *)
(* Strings (names, paths) are sequences of one-character strings, so that  *)
(* sanitizing, validating, joining and normalising are computed character  *)
(* by character as the Rust code does.  Option<T> is a set: {} is None and *)
(* {x} is Some(x).                                                         *)
(***************************************************************************)
EXTENDS Integers, Sequences, FiniteSets, TLC

----------------------------------------------------------------------------
(* Bounds of the model.                                                    *)

\* largest random 16-bit suffix the generator draws (the code: 0xFFFF)
MaxSuffix == 0
\* largest value of the unix clock
MaxTime == 1
\* largest number of rooms kept in a RoomsState / of registered checkouts
MaxRooms == 3

----------------------------------------------------------------------------
(* Characters and strings.                                                 *)

LowerChars == <<"a","b","c","d","e","f","g","h","i","j","k","l","m",
                "n","o","p","q","r","s","t","u","v","w","x","y","z">>
UpperChars == <<"A","B","C","D","E","F","G","H","I","J","K","L","M",
                "N","O","P","Q","R","S","T","U","V","W","X","Y","Z">>
DigitChars == <<"0","1","2","3","4","5","6","7","8","9">>
HexChars == <<"0","1","2","3","4","5","6","7","8","9","a","b","c","d","e","f">>

Range(s) == {s[i] : i \in DOMAIN s}

LowerSet == Range(LowerChars)
UpperSet == Range(UpperChars)
DigitSet == Range(DigitChars)

is_ascii_lowercase(c) == c \in LowerSet
is_ascii_uppercase(c) == c \in UpperSet
is_ascii_digit(c) == c \in DigitSet
is_ascii_alphanumeric(c) ==
    is_ascii_lowercase(c) \/ is_ascii_uppercase(c) \/ is_ascii_digit(c)

\* char::to_lowercase on the characters of the model's alphabet
to_lowercase_char(c) ==
    IF is_ascii_uppercase(c)
    THEN LowerChars[CHOOSE i \in DOMAIN UpperChars : UpperChars[i] = c]
    ELSE c

to_lowercase(s) == [i \in DOMAIN s |-> to_lowercase_char(s[i])]

starts_with(s, p) == Len(p) <= Len(s) /\ SubSeq(s, 1, Len(p)) = p
ends_with(s, p) ==
    Len(p) <= Len(s) /\ SubSeq(s, Len(s) - Len(p) + 1, Len(s)) = p

\* String::pop: drop the last character (nothing on the empty string)
pop(s) == IF Len(s) = 0 THEN s ELSE SubSeq(s, 1, Len(s) - 1)

\* String::truncate(n)
truncate(s, n) == IF Len(s) > n THEN SubSeq(s, 1, n) ELSE s

\* u64 / u16 formatting
RECURSIVE format_decimal(_)
format_decimal(n) ==
    IF n < 10 THEN <<DigitChars[n + 1]>>
    ELSE format_decimal(n \div 10) \o <<DigitChars[(n % 10) + 1]>>

\* format!("{:04x}", suffix) for a u16
format_04x(n) ==
    << HexChars[((n \div 4096) % 16) + 1], HexChars[((n \div 256) % 16) + 1],
       HexChars[((n \div 16) % 16) + 1], HexChars[(n % 16) + 1] >>

None == {}
Some(x) == {x}
Unwrap(o) == CHOOSE x \in o : TRUE
\* Option<T> as the sequence of what it holds
OptionSeq(o) == IF o = {} THEN <<>> ELSE <<Unwrap(o)>>

----------------------------------------------------------------------------
(* room/naming.rs                                                          *)

MAX_NAME_LEN == 40
MAX_ATTEMPTS == 100

\* the word lists, cut to their first entries
ADJECTIVES == << <<"q","u","i","c","k">> >>
NOUNS == << <<"f","o","x">> >>

\* every value generate_room_name() can return with a suffix up to top
generate_room_name_upto(top) ==
    { ADJECTIVES[a] \o <<"-">> \o NOUNS[n] \o <<"-">> \o format_04x(x) :
        a \in DOMAIN ADJECTIVES, n \in DOMAIN NOUNS, x \in 0..top }

\* every value generate_room_name() can return
generate_room_name == generate_room_name_upto(MaxSuffix)

\* Every value generate_unique_room_name(exists) can return at time t.
\* The loop draws up to MAX_ATTEMPTS candidates and returns the first one
\* that does not exist; when every draw collided it returns room-<t>
\* unchecked.  `after` is what the call can return with the draws still to
\* come; once one more draw adds nothing to it, no later draw does.
RECURSIVE generate_unique_from(_, _, _)
generate_unique_from(exists, left, after) ==
    LET with_draw == UNION { IF name \notin exists THEN {name} ELSE after :
                               name \in generate_room_name }
    IN  IF left = MAX_ATTEMPTS THEN after
        ELSE IF with_draw = after /\ left > 0 THEN after
        ELSE generate_unique_from(exists, left + 1, with_draw)

generate_unique_room_name(exists, t) ==
    generate_unique_from(exists, 0,
                         { <<"r","o","o","m","-">> \o format_decimal(t) })

\* a validation that lets a name end with a hyphen
validate_room_name_open_ended(name) ==
    IF Len(name) = 0 THEN "name cannot be empty"
    ELSE IF Len(name) > MAX_NAME_LEN THEN "name cannot exceed 40 characters"
    ELSE IF starts_with(name, <<"-">>)
         THEN "name cannot start or end with a hyphen"
    ELSE IF ~ \A i \in DOMAIN name :
                is_ascii_lowercase(name[i]) \/ is_ascii_digit(name[i])
                \/ name[i] = "-"
         THEN "name can only contain lowercase letters, digits, and hyphens"
    ELSE "ok"

validate_room_name(name) ==
    IF Len(name) = 0 THEN "name cannot be empty"
    ELSE IF Len(name) > MAX_NAME_LEN THEN "name cannot exceed 40 characters"
    ELSE IF starts_with(name, <<"-">>) \/ ends_with(name, <<"-">>)
         THEN "name cannot start or end with a hyphen"
    ELSE IF ~ \A i \in DOMAIN name :
                is_ascii_lowercase(name[i]) \/ is_ascii_digit(name[i])
                \/ name[i] = "-"
         THEN "name can only contain lowercase letters, digits, and hyphens"
    ELSE "ok"

\* the collapsing loop of sanitize_room_name: acc is <<result, last_was_hyphen>>
RECURSIVE collapse_hyphens(_, _, _)
collapse_hyphens(s, result, last_was_hyphen) ==
    IF s = <<>> THEN result
    ELSE IF Head(s) = "-"
         THEN IF ~last_was_hyphen
              THEN collapse_hyphens(Tail(s), Append(result, "-"), TRUE)
              ELSE collapse_hyphens(Tail(s), result, last_was_hyphen)
         ELSE collapse_hyphens(Tail(s), Append(result, Head(s)), FALSE)

RECURSIVE pop_while_hyphen(_)
pop_while_hyphen(s) ==
    IF ends_with(s, <<"-">>) THEN pop_while_hyphen(pop(s)) ELSE s

\* a sanitizer that cuts to 40 characters and leaves what the cut ends on
sanitize_room_name_cut_only(name) ==
    LET lowered == to_lowercase(name)
        sanitized == [i \in DOMAIN lowered |->
                        IF is_ascii_alphanumeric(lowered[i])
                        THEN lowered[i] ELSE "-"]
        collapsed == collapse_hyphens(sanitized, <<>>, TRUE)
        stripped == IF ends_with(collapsed, <<"-">>) THEN pop(collapsed)
                    ELSE collapsed
    IN  truncate(stripped, MAX_NAME_LEN)

sanitize_room_name(name) ==
    LET lowered == to_lowercase(name)
        sanitized == [i \in DOMAIN lowered |->
                        IF is_ascii_alphanumeric(lowered[i])
                        THEN lowered[i] ELSE "-"]
        collapsed == collapse_hyphens(sanitized, <<>>, TRUE)
        stripped == IF ends_with(collapsed, <<"-">>) THEN pop(collapsed)
                    ELSE collapsed
    IN  IF Len(stripped) > MAX_NAME_LEN
        THEN pop_while_hyphen(truncate(stripped, MAX_NAME_LEN))
        ELSE stripped

----------------------------------------------------------------------------
(* Paths, the file system and the git worktree registry.                   *)

VARIABLES
    \* the environment
    disk,        \* the directories that exist: a set of canonical paths
    worktrees,   \* git's registry of checkouts, in listing order, primary first
    now,         \* the unix clock, in seconds
    \* the lifecycle library
    state,       \* RoomsState.rooms: the persisted list of Room records
    outcome,     \* what the last lifecycle call did: its result and commands
    \* the fields of App
    rooms_dir,              \* App.rooms_dir as the caller wrote it
    rooms,                  \* App.rooms: the discovered RoomInfo list
    transient,              \* App.transient: room name -> overlay entry
    selected_index,         \* App.selected_index (0-based)
    focus,                  \* App.focus: "Sidebar" or "MainScene"
    sidebar_visible,        \* App.sidebar_visible
    main_scene_visible,     \* App.main_scene_visible
    status_message,         \* App.status_message: Option of a message
    prompt,                 \* App.prompt: the PromptState
    confirm,                \* App.confirm: the ConfirmState
    sessions,               \* App.sessions: room name -> PtySession
    scrollback_offset,      \* App.scrollback_offset
    prev_scrollback_offset, \* App.prev_scrollback_offset
    last_size,              \* App.last_size: <<width, height>>
    \* the control loop
    pc,          \* where main_loop stands: "frame", "drain" or "input"
    drain,       \* the sessions the drain at the top of the loop has yet to visit
    \* history
    spawned,     \* how many child shells were ever spawned
    faults,      \* how many times the world around the control loop acted
                 \* against it: a call failed, a child ended, the overlay
                 \* got an entry
    event        \* what the last step did: its kind, result and external calls

env_vars == <<disk, worktrees, now>>
lib_vars == <<state, outcome>>
app_vars == <<rooms_dir, rooms, transient, selected_index, focus,
              sidebar_visible, main_scene_visible, status_message, prompt,
              confirm, sessions, scrollback_offset, prev_scrollback_offset,
              last_size, pc, drain, spawned, faults, event>>
vars == <<disk, worktrees, now, state, outcome, rooms_dir, rooms, transient,
          selected_index, focus, sidebar_visible, main_scene_visible,
          status_message, prompt, confirm, sessions, scrollback_offset,
          prev_scrollback_offset, last_size, pc, drain, spawned, faults, event>>

RoomsDir == <<"/","r">>
PrimaryPath == <<"/","p">>

\* Path::join for a relative, separator-free second part
join(dir, name) ==
    IF ends_with(dir, <<"/">>) THEN dir \o name ELSE dir \o <<"/">> \o name

\* Path::exists
exists(path) == path \in disk

RegisteredPaths(wts) == {wts[i].path : i \in DOMAIN wts}

\* GitCommand::run: the tool cannot be launched ("exec"), exits non-zero
\* ("fail", "not_wt" when stderr says `is not a working tree`) or exits 0.
GitResults == {"ok", "fail", "not_wt", "exec"}

\* which results `git worktree add <path> ...` can have
GitAddResults(dsk, wts, path) ==
    {"fail", "exec"} \cup
    (IF path \notin dsk /\ path \notin RegisteredPaths(wts) THEN {"ok"} ELSE {})

\* which results `git worktree move <old> <new>` can have
GitMoveResults(dsk, wts, old, new) ==
    {"fail", "exec"} \cup
    (IF /\ \E i \in DOMAIN wts : i > 1 /\ wts[i].path = old
        /\ old \in dsk /\ new \notin dsk /\ new \notin RegisteredPaths(wts)
     THEN {"ok"} ELSE {})

\* which results `git worktree remove [--force] <path>` can have
GitRemoveResults(dsk, wts, path) ==
    {"exec"} \cup
    (IF \E i \in DOMAIN wts : i > 1 /\ wts[i].path = path
     THEN {"ok", "fail"}
     ELSE IF path = PrimaryPath THEN {"fail"} ELSE {"not_wt"})

\* which results `git rev-parse --verify --quiet refs/heads/<b>` can have
GitRevParseResults(wts, branch) ==
    {"ok", "exec"} \cup
    (IF \E i \in DOMAIN wts : wts[i].branch = Some(branch) THEN {} ELSE {"fail"})

\* the registry after a successful `git worktree add`
registry_add(wts, path, branch) ==
    Append(wts, [path |-> path, branch |-> Some(branch), locked |-> None])

\* the registry after a successful `git worktree move`
registry_move(wts, old, new) ==
    [i \in DOMAIN wts |->
        IF wts[i].path = old THEN [wts[i] EXCEPT !.path = new] ELSE wts[i]]

\* the registry after a successful `git worktree remove`
registry_remove(wts, path) ==
    LET keep(w) == w.path # path IN SelectSeq(wts, keep)

----------------------------------------------------------------------------
(* state/mod.rs                                                            *)

\* Room::new
Room_new(name, branch, path) ==
    [name |-> name, branch |-> branch, path |-> path, status |-> "Creating",
     last_error |-> None]

\* RoomsState::name_exists
name_exists(st, name) == \E i \in DOMAIN st : st[i].name = name

\* the index RoomsState::find_by_name / position() stops at (0: not found)
find_index(st, name) ==
    IF name_exists(st, name)
    THEN CHOOSE i \in DOMAIN st :
            st[i].name = name /\ \A j \in 1..(i - 1) : st[j].name # name
    ELSE 0

\* RoomsState::add_room
add_room(st, room) == Append(st, room)

\* RoomsState::remove_by_name: removes the first room of that name
remove_by_name(st, name) ==
    LET idx == find_index(st, name)
    IN  IF idx = 0 THEN st
        ELSE SubSeq(st, 1, idx - 1) \o SubSeq(st, idx + 1, Len(st))

----------------------------------------------------------------------------
(* room/create.rs, room/rename.rs, room/remove.rs                          *)
(*                                                                         *)
(* Each operation is a function of the state it reads and of the results   *)
(* the git tool gives to the commands it runs; it returns its result, the  *)
(* commands it ran and the state, registry and directories it leaves.      *)

NoRoom == [name |-> <<>>, branch |-> <<>>, path |-> <<>>, status |-> "",
           last_error |-> None]

\* Err(e) before any command ran
Failure(op, err, st, dsk, wts, cmds) ==
    [op |-> op, ok |-> FALSE, err |-> err, value |-> <<>>, room |-> NoRoom,
     cmds |-> cmds, state |-> st, disk |-> dsk, worktrees |-> wts]

Success(op, value, room, st, dsk, wts, cmds) ==
    [op |-> op, ok |-> TRUE, err |-> "", value |-> value, room |-> room,
     cmds |-> cmds, state |-> st, disk |-> dsk, worktrees |-> wts]

CmdRevParse(branch) ==
    [cmd |-> "rev-parse", path |-> <<>>, to |-> <<>>, branch |-> Some(branch),
     base |-> None, new_branch |-> FALSE, force |-> FALSE]
CmdAdd(path, branch, base, new_branch) ==
    [cmd |-> "add", path |-> path, to |-> <<>>, branch |-> Some(branch),
     base |-> base, new_branch |-> new_branch, force |-> FALSE]
CmdMove(old, new) ==
    [cmd |-> "move", path |-> old, to |-> new, branch |-> None,
     base |-> None, new_branch |-> FALSE, force |-> FALSE]
CmdRemove(path, force) ==
    [cmd |-> "remove", path |-> path, to |-> <<>>, branch |-> None,
     base |-> None, new_branch |-> FALSE, force |-> force]

\* a creation that does not look at the target path before it asks git
create_worktree_overwriting(st, dsk, wts, options, name, branch, worktree_path, rev, add) ==
    LET branch_exists == (rev = "ok")
        add_cmd == IF branch_exists
                   THEN CmdAdd(worktree_path, branch, None, FALSE)
                   ELSE CmdAdd(worktree_path, branch, options.base_branch, TRUE)
        room == [Room_new(name, branch, worktree_path) EXCEPT !.status = "Ready"]
    IN  IF rev = "exec"
        THEN Failure("create", "GitError", st, dsk, wts, <<CmdRevParse(branch)>>)
        ELSE IF add = "ok"
        THEN Success("create", name, room, add_room(st, room),
                     dsk \cup {worktree_path},
                     registry_add(wts, worktree_path, branch),
                     <<CmdRevParse(branch), add_cmd>>)
        ELSE IF add = "exec"
        THEN Failure("create", "GitError", st, dsk, wts,
                     <<CmdRevParse(branch), add_cmd>>)
        ELSE Failure("create", "WorktreeCreation", st, dsk, wts,
                     <<CmdRevParse(branch), add_cmd>>)

\* a creation that always creates the branch, from the base when one is given
create_worktree_from_base(st, dsk, wts, options, name, branch, worktree_path, rev, add) ==
    LET add_cmd == CmdAdd(worktree_path, branch, options.base_branch, TRUE)
        room == [Room_new(name, branch, worktree_path) EXCEPT !.status = "Ready"]
    IN  IF worktree_path \in dsk
        THEN Failure("create", "WorktreeCreation", st, dsk, wts, <<>>)
        ELSE IF rev = "exec"
        THEN Failure("create", "GitError", st, dsk, wts, <<CmdRevParse(branch)>>)
        ELSE IF add = "ok"
        THEN Success("create", name, room, add_room(st, room),
                     dsk \cup {worktree_path},
                     registry_add(wts, worktree_path, branch),
                     <<CmdRevParse(branch), add_cmd>>)
        ELSE IF add = "exec"
        THEN Failure("create", "GitError", st, dsk, wts,
                     <<CmdRevParse(branch), add_cmd>>)
        ELSE Failure("create", "WorktreeCreation", st, dsk, wts,
                     <<CmdRevParse(branch), add_cmd>>)

\* a creation that keeps the room it added when git refused the checkout
create_worktree_keeping(st, dsk, wts, options, name, branch, worktree_path, rev, add) ==
    LET branch_exists == (rev = "ok")
        add_cmd == IF branch_exists
                   THEN CmdAdd(worktree_path, branch, None, FALSE)
                   ELSE CmdAdd(worktree_path, branch, options.base_branch, TRUE)
        room == [Room_new(name, branch, worktree_path) EXCEPT !.status = "Ready"]
    IN  IF worktree_path \in dsk
        THEN Failure("create", "WorktreeCreation", st, dsk, wts, <<>>)
        ELSE IF rev = "exec"
        THEN Failure("create", "GitError", st, dsk, wts, <<CmdRevParse(branch)>>)
        ELSE IF add = "ok"
        THEN Success("create", name, room, add_room(st, room),
                     dsk \cup {worktree_path},
                     registry_add(wts, worktree_path, branch),
                     <<CmdRevParse(branch), add_cmd>>)
        ELSE IF add = "exec"
        THEN Failure("create", "GitError", add_room(st, room), dsk, wts,
                     <<CmdRevParse(branch), add_cmd>>)
        ELSE Failure("create", "WorktreeCreation", add_room(st, room), dsk, wts,
                     <<CmdRevParse(branch), add_cmd>>)

\* create_room_in_repo(rooms_dir, state, options, repo_dir)
\*   gen: the value generate_unique_room_name returns when it is called
\*   rev: the result of the rev-parse query;  add: the result of worktree add
\* create_room_in_repo from "Check if path already exists" on
create_worktree(st, dsk, wts, options, name, branch, worktree_path, rev, add) ==
    LET branch_exists == (rev = "ok")
        add_cmd == IF branch_exists
                   THEN CmdAdd(worktree_path, branch, None, FALSE)
                   ELSE CmdAdd(worktree_path, branch, options.base_branch, TRUE)
        room == [Room_new(name, branch, worktree_path) EXCEPT !.status = "Ready"]
    IN  IF worktree_path \in dsk
        THEN Failure("create", "WorktreeCreation", st, dsk, wts, <<>>)
        ELSE IF rev = "exec"
        THEN Failure("create", "GitError", st, dsk, wts, <<CmdRevParse(branch)>>)
        ELSE IF add = "ok"
        THEN Success("create", name, room, add_room(st, room),
                     dsk \cup {worktree_path},
                     registry_add(wts, worktree_path, branch),
                     <<CmdRevParse(branch), add_cmd>>)
        ELSE IF add = "exec"
        THEN Failure("create", "GitError", st, dsk, wts,
                     <<CmdRevParse(branch), add_cmd>>)
        ELSE Failure("create", "WorktreeCreation", st, dsk, wts,
                     <<CmdRevParse(branch), add_cmd>>)

\* create_room_in_repo from "Determine branch name" on
create_named(st, dsk, wts, options, name, rev, add) ==
    create_worktree(st, dsk, wts, options, name,
                    IF options.branch # None
                    THEN sanitize_room_name(Unwrap(options.branch))
                    ELSE name,
                    join(RoomsDir, name), rev, add)

\* a creation under a given name that does not ask whether the name is taken
create_given_unchecked(st, dsk, wts, options, sanitized, rev, add) ==
    IF validate_room_name(sanitized) # "ok"
    THEN Failure("create", "InvalidName", st, dsk, wts, <<>>)
    ELSE create_named(st, dsk, wts, options, sanitized, rev, add)

\* create_room_in_repo for a name that was given, after it was sanitized
create_given(st, dsk, wts, options, sanitized, rev, add) ==
    IF validate_room_name(sanitized) # "ok"
    THEN Failure("create", "InvalidName", st, dsk, wts, <<>>)
    ELSE IF name_exists(st, sanitized)
    THEN Failure("create", "NameExists", st, dsk, wts, <<>>)
    ELSE create_named(st, dsk, wts, options, sanitized, rev, add)

create_room_in_repo(st, dsk, wts, options, gen, rev, add) ==
    IF options.name # None
    THEN create_given(st, dsk, wts, options,
                      sanitize_room_name(Unwrap(options.name)), rev, add)
    ELSE create_named(st, dsk, wts, options, gen, rev, add)

\* a rename that does not look at the destination path before it moves
rename_room_unguarded(st, dsk, wts, current_name, new_name, mv) ==
    LET idx == find_index(st, current_name)
        old_path == st[idx].path
        new_path == join(RoomsDir, new_name)
        renamed == [st EXCEPT ![idx].name = new_name, ![idx].path = new_path]
    IN  IF validate_room_name(new_name) # "ok"
        THEN Failure("rename", "InvalidName", st, dsk, wts, <<>>)
        ELSE IF current_name = new_name
        THEN Failure("rename", "SameName", st, dsk, wts, <<>>)
        ELSE IF name_exists(st, new_name)
        THEN Failure("rename", "NameExists", st, dsk, wts, <<>>)
        ELSE IF idx = 0
        THEN Failure("rename", "NotFound", st, dsk, wts, <<>>)
        ELSE IF mv # "ok"
        THEN Failure("rename", "WorktreeMove", st, dsk, wts,
                     <<CmdMove(old_path, new_path)>>)
        ELSE Success("rename", st[idx].name, renamed[idx], renamed,
                     (dsk \ {old_path}) \cup {new_path},
                     registry_move(wts, old_path, new_path),
                     <<CmdMove(old_path, new_path)>>)

\* rename_room(repo_root, rooms_dir, state, current_name, new_name)
\*   mv: the result of git worktree move
rename_room(st, dsk, wts, current_name, new_name, mv) ==
    LET idx == find_index(st, current_name)
        old_path == st[idx].path
        new_path == join(RoomsDir, new_name)
        renamed == [st EXCEPT ![idx].name = new_name, ![idx].path = new_path]
    IN  IF validate_room_name(new_name) # "ok"
        THEN Failure("rename", "InvalidName", st, dsk, wts, <<>>)
        ELSE IF current_name = new_name
        THEN Failure("rename", "SameName", st, dsk, wts, <<>>)
        ELSE IF name_exists(st, new_name)
        THEN Failure("rename", "NameExists", st, dsk, wts, <<>>)
        ELSE IF idx = 0
        THEN Failure("rename", "NotFound", st, dsk, wts, <<>>)
        ELSE IF new_path \in dsk
        THEN Failure("rename", "PathExists", st, dsk, wts, <<>>)
        ELSE IF mv # "ok"
        THEN Failure("rename", "WorktreeMove", st, dsk, wts,
                     <<CmdMove(old_path, new_path)>>)
        ELSE Success("rename", st[idx].name, renamed[idx], renamed,
                     (dsk \ {old_path}) \cup {new_path},
                     registry_move(wts, old_path, new_path),
                     <<CmdMove(old_path, new_path)>>)

\* remove_worktree(path): "" for Ok(()), else the error
remove_worktree(rm) ==
    IF rm = "exec" THEN "WorktreeRemoval"
    ELSE IF rm # "ok"
         THEN IF rm = "not_wt" THEN "" ELSE "WorktreeRemoval"
    ELSE ""

\* remove_worktree_force(path): "" for Ok(()), else the error
remove_worktree_force(rm) ==
    IF rm = "exec" THEN "WorktreeRemoval"
    ELSE IF rm # "ok" THEN "WorktreeRemoval"
    ELSE ""

\* remove_room(state, room_name, force);  rm: the result of worktree remove
remove_room(st, dsk, wts, room_name, force, rm) ==
    LET idx == find_index(st, room_name)
        path == st[idx].path
        name == st[idx].name
        err == IF force THEN remove_worktree_force(rm) ELSE remove_worktree(rm)
        gone == (rm = "ok")
    IN  IF idx = 0
        THEN Failure("remove", "NotFound", st, dsk, wts, <<>>)
        ELSE IF err # ""
        THEN Failure("remove", err, st, dsk, wts, <<CmdRemove(path, force)>>)
        ELSE Success("remove", name, st[idx], remove_by_name(st, room_name),
                     IF gone THEN dsk \ {path} ELSE dsk,
                     IF gone THEN registry_remove(wts, path) ELSE wts,
                     <<CmdRemove(path, force)>>)

----------------------------------------------------------------------------
(* git/worktree.rs, room/model.rs, room/discovery.rs                       *)

\* The components of an absolute path as std::path sees them on Unix: the
\* parts between "/" separators, empty parts (repeated or trailing
\* separators) dropped.
RECURSIVE split_components(_, _, _)
split_components(path, cur, acc) ==
    IF path = <<>> THEN (IF cur = <<>> THEN acc ELSE Append(acc, cur))
    ELSE IF Head(path) = "/"
         THEN split_components(Tail(path), <<>>,
                               IF cur = <<>> THEN acc ELSE Append(acc, cur))
         ELSE split_components(Tail(path), Append(cur, Head(path)), acc)

components(path) == split_components(path, <<>>, <<>>)

\* the canonical spelling of a list of components
RECURSIVE from_components(_)
from_components(cs) ==
    IF cs = <<>> THEN <<>>
    ELSE <<"/">> \o Head(cs) \o from_components(Tail(cs))

canonical(path) ==
    IF components(path) = <<>> THEN <<"/">> ELSE from_components(components(path))

\* Path::canonicalize: Some(canonical path) when the directory exists
canonicalize(dsk, path) ==
    IF canonical(path) \in dsk THEN Some(canonical(path)) ELSE None

\* Path::starts_with: a prefix by whole components
path_starts_with(path, base) ==
    starts_with(components(path), components(base))

\* Worktree::name: the last component of the path
Worktree_name(wt) ==
    LET cs == components(wt.path)
    IN  IF cs = <<>> THEN None ELSE Some(cs[Len(cs)])

\* Worktree::is_prunable
\* prunable only with a reason given
is_prunable_with_reason(wt) == wt.prunable # None /\ wt.prunable # Some(<<>>)

is_prunable(wt) == wt.prunable # None

\* list_worktrees_from: the registry as `git worktree list --porcelain`
\* prints it and parse_porcelain_output reads it back; git marks an entry
\* prunable when its directory is gone.
list_worktrees_from(dsk, wts) ==
    [i \in DOMAIN wts |->
        [path |-> wts[i].path,
         head |-> <<"h">>,
         branch |-> wts[i].branch,
         is_main |-> (i = 1),
         prunable |-> IF i > 1 /\ canonical(wts[i].path) \notin dsk
                      THEN Some(<<"g","o","n","e">>) ELSE None,
         locked |-> wts[i].locked]]

\* impl From<&Worktree> for RoomInfo
RoomInfo_from(wt) ==
    [name |-> IF Worktree_name(wt) = None
              THEN <<"u","n","k","n","o","w","n">>
              ELSE Unwrap(Worktree_name(wt)),
     branch |-> wt.branch,
     path |-> wt.path,
     status |-> IF is_prunable(wt) THEN "Orphaned" ELSE "Ready",
     is_prunable |-> is_prunable(wt),
     last_error |-> None,
     is_primary |-> FALSE]

\* the fold of normalize_path_string: separators unified and collapsed
RECURSIVE normalize_fold(_, _, _)
normalize_fold(s, acc, was_sep) ==
    IF s = <<>> THEN acc
    ELSE IF Head(s) = "/" \/ Head(s) = "\\"
         THEN normalize_fold(Tail(s),
                             IF was_sep THEN acc ELSE Append(acc, "/"), TRUE)
         ELSE normalize_fold(Tail(s), Append(acc, Head(s)), FALSE)

\* str::trim_end_matches('/')
RECURSIVE trim_end_slashes(_)
trim_end_slashes(s) ==
    IF ends_with(s, <<"/">>) THEN trim_end_slashes(pop(s)) ELSE s

normalize_path_string(path) == trim_end_slashes(normalize_fold(path, <<>>, FALSE))

is_worktree_in_rooms_dir(dsk, wt, rooms_dir_canonical) ==
    IF canonicalize(dsk, wt.path) # None
    THEN path_starts_with(Unwrap(canonicalize(dsk, wt.path)), rooms_dir_canonical)
    ELSE starts_with(normalize_path_string(wt.path),
                     normalize_path_string(rooms_dir_canonical))

\* TransientRoomState::new and ::with_error
TransientRoomState_new(status) == [status |-> status, last_error |-> None]
TransientRoomState_with_error(message) ==
    [status |-> "Error", last_error |-> Some(message)]

\* HashMap::insert and HashMap::remove on a map kept as a function
map_insert(m, k, v) == [x \in DOMAIN m \cup {k} |-> IF x = k THEN v ELSE m[x]]
map_remove(m, k) == [x \in DOMAIN m \ {k} |-> m[x]]

\* TransientStateStore::set_status, ::set_error, ::remove
set_status(store, room_name, status) ==
    map_insert(store, room_name, TransientRoomState_new(status))
set_error(store, room_name, message) ==
    map_insert(store, room_name, TransientRoomState_with_error(message))
transient_remove(store, room_name) == map_remove(store, room_name)

\* TransientStateStore::get
transient_get(store, name) ==
    IF name \in DOMAIN store THEN Some(store[name]) ELSE None

\* an overlay that replaces the status and forgets the error message
apply_transient_status_only(store, info) ==
    IF transient_get(store, info.name) # None
    THEN [info EXCEPT !.status = Unwrap(transient_get(store, info.name)).status]
    ELSE info

\* the body of discover_rooms's map closure after RoomInfo::from: the
\* overlay entry of the room's name, when there is one, replaces the
\* derived status and last_error
apply_transient(store, info) ==
    IF transient_get(store, info.name) # None
    THEN [info EXCEPT
            !.status = Unwrap(transient_get(store, info.name)).status,
            !.last_error = Unwrap(transient_get(store, info.name)).last_error]
    ELSE info

\* discover_rooms(repo_root, rooms_dir, transient)
\*   ls: the result of `git worktree list --porcelain`
\* a discovery that lists the checkouts before it looks at rooms_dir
discover_rooms_listing_first(dsk, wts, dir, store, ls) ==
    IF ls # "ok"
    THEN [ok |-> FALSE, err |-> "WorktreeList", path |-> <<>>, rooms |-> <<>>,
          listed |-> TRUE]
    ELSE [ok |-> FALSE, err |-> "InvalidRoomsDir", path |-> dir, rooms |-> <<>>,
          listed |-> TRUE]

discover_rooms(dsk, wts, dir, store, ls) ==
    LET listed == list_worktrees_from(dsk, wts)
        rooms_dir_canonical ==
            IF canonicalize(dsk, dir) # None THEN Unwrap(canonicalize(dsk, dir))
            ELSE dir
        keep(wt) == ~wt.is_main /\ is_worktree_in_rooms_dir(dsk, wt, rooms_dir_canonical)
        kept == SelectSeq(listed, keep)
    IN  IF canonical(dir) \notin dsk
        THEN [ok |-> FALSE, err |-> "InvalidRoomsDir", path |-> dir, rooms |-> <<>>,
              listed |-> FALSE]
        ELSE IF ls # "ok"
        THEN [ok |-> FALSE, err |-> "WorktreeList", path |-> <<>>, rooms |-> <<>>,
              listed |-> TRUE]
        ELSE [ok |-> TRUE, err |-> "", path |-> <<>>,
              rooms |-> [i \in DOMAIN kept |->
                            apply_transient(store, RoomInfo_from(kept[i]))],
              listed |-> TRUE]

----------------------------------------------------------------------------
(* terminal/session.rs                                                     *)

MaxSpawns == 2

\* PtySession::new(cols, rows, cwd) when it succeeds: the terminal and the
\* parser grid both have the size asked for, the reader thread is started
\*   id: which child process this is (the model's identity of the session)
PtySession_new(cols, rows, cwd, id) ==
    [id |-> id, cwd |-> cwd,
     pty_size |-> <<cols, rows>>,     \* the size of the OS-level terminal
     parser_size |-> <<cols, rows>>,  \* the size of the parser's grid
     scrollback |-> 0,                \* the parser's scrollback offset
     reader |-> "reading",            \* the reader thread: reading, sending, done
     buf |-> <<>>,                    \* the chunk the reader holds, if any
     read |-> <<>>,                   \* every chunk the reader has read
     queue |-> <<>>,                  \* the channel from reader to session
     fed |-> <<>>]                    \* every chunk the parser has processed

\* the results PtySession::new can have
SpawnResults(n) ==
    IF n < MaxSpawns THEN {"ok", "PtyOpen", "SpawnShell"}
    ELSE {"PtyOpen"}

\* the results of a spawn that are failures of the system
SpawnFaults(n) == IF n < MaxSpawns THEN {"PtyOpen", "SpawnShell"} ELSE {}

\* a call the program made on the outside world
Call(call, name, ok, arg) == [call |-> call, name |-> name, ok |-> ok, arg |-> arg]

\* PtySession::resize(cols, rows): the session after it, and the calls made
PtySession_resize(s, cols, rows) ==
    [session |-> [s EXCEPT !.pty_size = <<cols, rows>>,
                           !.parser_size = <<cols, rows>>],
     calls |-> <<"master.resize", "set_size">>]

\* a sender that puts the chunk at the head of the channel
tx_send_front(queue, data) == <<data>> \o queue

\* mpsc Sender::send
tx_send(queue, data) == Append(queue, data)

\* mpsc Receiver::try_recv: the oldest chunk, if there is one, and the
\* channel without it
try_recv(queue) ==
    IF queue = <<>> THEN [data |-> None, queue |-> queue]
    ELSE [data |-> Some(Head(queue)), queue |-> Tail(queue)]

\* the reader thread, reader.read(&mut buf) giving Ok(n) with n > 0: it
\* holds the bytes read as one chunk
reader_read(s, data) ==
    [s EXCEPT !.reader = "sending", !.buf = data, !.read = Append(@, data)]

\* the reader thread, tx.send(data)
reader_send(s) ==
    [s EXCEPT !.reader = "reading", !.buf = <<>>,
              !.queue = tx_send(@, s.buf)]

\* one turn of the loop of PtySession::process_output: a chunk received
\* goes to the parser
parser_process(s) ==
    LET got == try_recv(s.queue)
    IN  [s EXCEPT !.queue = got.queue, !.fed = @ \o OptionSeq(got.data)]

\* PtySession::process_output with nothing sent meanwhile: every queued
\* chunk goes to the parser, oldest first
process_output(s) == [s EXCEPT !.fed = s.fed \o s.queue, !.queue = <<>>]

\* Screen::set_scrollback
set_scrollback(s, offset) == [s EXCEPT !.scrollback = offset]

----------------------------------------------------------------------------
(* ui/app.rs: helpers                                                      *)

SIDEBAR_WIDTH == 40
SCROLLBACK_LINES == 1000
BORDERS == 2
MIN_COLS == 10
MIN_ROWS == 5

\* u16::saturating_sub
saturating_sub(a, b) == IF a > b THEN a - b ELSE 0
max(a, b) == IF a > b THEN a ELSE b
min(a, b) == IF a < b THEN a ELSE b

\* App::calculate_pty_size with calculate_layout and get_main_scene_area
calculate_pty_size(w) ==
    LET width == w.last_size[1]
        height == w.last_size[2]
        main_width == IF w.sidebar_visible /\ w.main_scene_visible
                      THEN saturating_sub(width, SIDEBAR_WIDTH)
                      ELSE width
    IN  << max(saturating_sub(main_width, BORDERS), MIN_COLS),
           max(saturating_sub(height, BORDERS), MIN_ROWS) >>

\* the characters of names and paths in the order of their code points
AsciiOrder == <<" ", "-", "/">> \o DigitChars \o UpperChars \o LowerChars
char_code(c) == CHOOSE i \in DOMAIN AsciiOrder : AsciiOrder[i] = c

\* Ord for String: TRUE when a sorts strictly before b
RECURSIVE str_less(_, _)
str_less(a, b) ==
    IF b = <<>> THEN FALSE
    ELSE IF a = <<>> THEN TRUE
    ELSE IF Head(a) = Head(b) THEN str_less(Tail(a), Tail(b))
    ELSE char_code(Head(a)) < char_code(Head(b))

\* normalize_path_for_compare
normalize_path_for_compare(path) ==
    LET normalized == normalize_fold(path, <<>>, FALSE)
    IN  IF ends_with(normalized, <<"/">>) THEN pop(normalized) ELSE normalized

\* is_primary_worktree(path, primary_canonical, primary_normalized)
is_primary_worktree(dsk, path) ==
    IF canonicalize(dsk, PrimaryPath) # None /\ canonicalize(dsk, path) # None
    THEN canonicalize(dsk, path) = canonicalize(dsk, PrimaryPath)
    ELSE normalize_path_for_compare(path) = normalize_path_for_compare(PrimaryPath)

\* a test that takes only prunable rooms as failed
room_is_failed_prunable_only(room) == room.is_prunable

\* App::room_is_failed
room_is_failed(room) ==
    \/ room.is_prunable
    \/ room.status \in {"Error", "Orphaned"}
    \/ room.last_error # None

\* room_section_rank_with_active
room_section_rank_with_active(room, active_rooms) ==
    IF room_is_failed(room) THEN 2
    ELSE IF room.name \in active_rooms THEN 0
    ELSE 1

\* the key sort_rooms_for_sidebar orders by
sort_key(dsk, room, active_rooms) ==
    << room_section_rank_with_active(room, active_rooms),
       IF is_primary_worktree(dsk, room.path) THEN 0 ELSE 1,
       to_lowercase(room.name) >>

\* Ord for the key tuples
key_less(a, b) ==
    \/ a[1] < b[1]
    \/ a[1] = b[1] /\ a[2] < b[2]
    \/ a[1] = b[1] /\ a[2] = b[2] /\ str_less(a[3], b[3])

\* slice::sort_by, a stable sort
RECURSIVE sort_by(_, _, _)
sort_by(rs, dsk, active_rooms) ==
    IF rs = <<>> THEN <<>>
    ELSE LET init == sort_by(SubSeq(rs, 1, Len(rs) - 1), dsk, active_rooms)
             x == rs[Len(rs)]
             k == Cardinality({i \in DOMAIN init :
                     ~key_less(sort_key(dsk, x, active_rooms),
                               sort_key(dsk, init[i], active_rooms))})
         IN  SubSeq(init, 1, k) \o <<x>> \o SubSeq(init, k + 1, Len(init))

\* Iterator::position over room names: Some(0-based index) or None
position(rs, name) ==
    IF \E i \in DOMAIN rs : rs[i].name = name
    THEN Some((CHOOSE i \in DOMAIN rs :
                  rs[i].name = name /\ \A j \in 1..(i - 1) : rs[j].name # name) - 1)
    ELSE None

\* the clamp at the end of refresh_rooms and sort_rooms_for_sidebar
clamp_selected(w) ==
    IF w.rooms = <<>> THEN [w EXCEPT !.selected_index = 0]
    ELSE IF w.selected_index >= Len(w.rooms)
    THEN [w EXCEPT !.selected_index = Len(w.rooms) - 1]
    ELSE w

\* App::selected_room_info: Some(room) or None
selected_room_info(w) ==
    IF w.selected_index < Len(w.rooms) THEN Some(w.rooms[w.selected_index + 1])
    ELSE None

\* the name of the selected room, taken before the list changes
selected_name(w) ==
    IF selected_room_info(w) = None THEN None
    ELSE Some(Unwrap(selected_room_info(w)).name)

\* a restore that leaves the selection at its index
restore_selection_by_index(w, name) == clamp_selected(w)

\* the selection is put back on the room called name, if it is listed,
\* and clamped
restore_selection(w, name) ==
    LET idx == IF name = None THEN None ELSE position(w.rooms, Unwrap(name))
    IN  clamp_selected([w EXCEPT !.selected_index =
                                     IF idx # None THEN Unwrap(idx) ELSE @])

\* App::sort_rooms_for_sidebar
sort_rooms_for_sidebar(w) ==
    restore_selection(
        [w EXCEPT !.rooms = sort_by(w.rooms, w.disk, DOMAIN w.sessions)],
        selected_name(w))

----------------------------------------------------------------------------
(* ui/app.rs: the operations of App.  Each takes the record w of App's     *)
(* fields and of the environment its calls act on, and returns the set of  *)
(* records it can leave, one for every result the outside world can give   *)
(* to the calls it makes.  w.calls collects the calls made on sessions,    *)
(* w.ret holds the value the operation returns.                            *)

\* no step was taken yet
NoEvent == [kind |-> "none", name |-> <<>>, ok |-> FALSE, calls |-> <<>>]

NoPrompt == [kind |-> "None", room_name |-> None, current_name |-> <<>>]
NoConfirm == [kind |-> "None", room_name |-> <<>>, dirty_status |-> None,
              selected_confirm |-> FALSE]

ListResults == {"ok", "fail"}
WriteResults == {"ok", "err"}

\* how many times in one run a call on the outside world fails, a child
\* ends or the overlay gets an entry
MaxFaults == 1

\* the results a call can have now: the failures in bad are left out once
\* MaxFaults calls have failed
Outcomes(w, results, bad) ==
    IF w.faults < MaxFaults THEN results ELSE results \ bad

\* w after a call had the result res
Faulted(w, res, bad) ==
    [w EXCEPT !.faults = IF res \in bad THEN @ + 1 ELSE @]

\* config.hooks.post_create and config.hooks.post_enter
POST_CREATE == << <<"c">> >>
POST_ENTER == << <<"e", "\n">> >>

\* a refresh that empties the list when discovery fails
refresh_rooms_clearing(w) ==
    LET refreshed(found) ==
            [restore_selection(
                 sort_rooms_for_sidebar([w EXCEPT !.rooms = found]),
                 selected_name(w))
               EXCEPT !.ret = TRUE]
        failed == [w EXCEPT !.status_message = Some("Failed to refresh rooms"),
                            !.rooms = <<>>, !.selected_index = 0,
                            !.ret = FALSE]
    IN  { IF r.ok THEN refreshed(r.rooms) ELSE Faulted(failed, "fail", {"fail"}) :
            r \in { discover_rooms(w.disk, w.worktrees, rooms_dir, w.transient, ls) :
                      ls \in Outcomes(w, ListResults, {"fail"}) } }

\* App::refresh_rooms
refresh_rooms(w) ==
    LET refreshed(found) ==
            [restore_selection(
                 sort_rooms_for_sidebar([w EXCEPT !.rooms = found]),
                 selected_name(w))
               EXCEPT !.ret = TRUE]
        failed == [w EXCEPT !.status_message = Some("Failed to refresh rooms"),
                            !.ret = FALSE]
    IN  { IF r.ok THEN refreshed(r.rooms) ELSE Faulted(failed, "fail", {"fail"}) :
            r \in { discover_rooms(w.disk, w.worktrees, rooms_dir, w.transient, ls) :
                      ls \in Outcomes(w, ListResults, {"fail"}) } }

\* App::current_session: the name under which the selected room has a
\* session, if it has one
current_session(w) ==
    IF selected_room_info(w) # None
       /\ Unwrap(selected_room_info(w)).name \in DOMAIN w.sessions
    THEN Some(Unwrap(selected_room_info(w)).name)
    ELSE None

\* a write_to_pty that gives up the session when the write fails
write_to_pty_fatal(w, bytes, clear_selection) ==
    LET reset == [w EXCEPT !.scrollback_offset = 0, !.prev_scrollback_offset = 0]
        name == Unwrap(current_session(w))
    IN  IF current_session(w) = None THEN { reset }
        ELSE { [Faulted(reset, res, {"err"}) EXCEPT
                  !.calls = Append(@, Call("write", name, res = "ok", bytes)),
                  !.sessions = IF res = "ok" THEN @ ELSE map_remove(@, name),
                  !.status_message = IF res = "ok" THEN @ ELSE Some("Write error")] :
                 res \in Outcomes(w, WriteResults, {"err"}) }

\* App::write_to_pty(bytes, clear_selection) with PtySession::write
write_to_pty(w, bytes, clear_selection) ==
    LET reset == [w EXCEPT !.scrollback_offset = 0, !.prev_scrollback_offset = 0]
        name == Unwrap(current_session(w))
    IN  IF current_session(w) = None THEN { reset }
        ELSE { [Faulted(reset, res, {"err"}) EXCEPT
                  !.calls = Append(@, Call("write", name, res = "ok", bytes)),
                  !.status_message = IF res = "ok" THEN @ ELSE Some("Write error")] :
                 res \in Outcomes(w, WriteResults, {"err"}) }

\* App::run_hook_commands
RECURSIVE run_hook_commands(_, _)
run_hook_commands(w, commands) ==
    IF commands = <<>> THEN { w }
    ELSE LET command == Head(commands)
             line == IF ends_with(command, <<"\n">>) THEN command
                     ELSE Append(command, "\n")
         IN  UNION { run_hook_commands(x, Tail(commands)) :
                       x \in write_to_pty(w, line, FALSE) }

\* a get_or_create_session that starts a new child whatever the map holds
get_or_create_session_respawn(w, cols, rows) ==
    LET room == Unwrap(selected_room_info(w))
    IN  IF selected_room_info(w) = None THEN { [w EXCEPT !.ret = FALSE] }
        ELSE { IF res = "ok"
               THEN sort_rooms_for_sidebar(
                      [w EXCEPT
                         !.sessions = map_insert(@, room.name,
                             PtySession_new(cols, rows, room.path, w.spawned + 1)),
                         !.spawned = @ + 1,
                         !.calls = Append(@, Call("spawn", room.name, TRUE, <<>>)),
                         !.ret = TRUE])
               ELSE [Faulted(w, res, SpawnFaults(w.spawned)) EXCEPT
                       !.status_message = Some("Failed to start shell"),
                       !.calls = Append(@, Call("spawn", room.name, FALSE, <<>>)),
                       !.ret = FALSE] :
                 res \in Outcomes(w, SpawnResults(w.spawned),
                                  SpawnFaults(w.spawned)) }

\* App::get_or_create_session(cols, rows); ret: whether it returns a session
get_or_create_session(w, cols, rows) ==
    LET room == Unwrap(selected_room_info(w))
    IN  IF selected_room_info(w) = None THEN { [w EXCEPT !.ret = FALSE] }
        ELSE IF room.name \in DOMAIN w.sessions THEN { [w EXCEPT !.ret = TRUE] }
        ELSE { IF res = "ok"
               THEN sort_rooms_for_sidebar(
                      [w EXCEPT
                         !.sessions = map_insert(@, room.name,
                             PtySession_new(cols, rows, room.path, w.spawned + 1)),
                         !.spawned = @ + 1,
                         !.calls = Append(@, Call("spawn", room.name, TRUE, <<>>)),
                         !.ret = TRUE])
               ELSE [Faulted(w, res, SpawnFaults(w.spawned)) EXCEPT
                       !.status_message = Some("Failed to start shell"),
                       !.calls = Append(@, Call("spawn", room.name, FALSE, <<>>)),
                       !.ret = FALSE] :
                 res \in Outcomes(w, SpawnResults(w.spawned),
                                  SpawnFaults(w.spawned)) }

\* an enter that moves the focus before it has a session
enter_selected_room_focusing(w, run_post_create) ==
    LET shown == [w EXCEPT !.main_scene_visible = TRUE, !.focus = "MainScene"]
        size == calculate_pty_size(shown)
        hooks(g) ==
            LET created == IF run_post_create
                           THEN run_hook_commands(g, POST_CREATE)
                           ELSE { g }
            IN  UNION { run_hook_commands(x, POST_ENTER) : x \in created }
    IN  UNION { IF g.ret THEN hooks(g) ELSE { g } :
                  g \in get_or_create_session(shown, size[1], size[2]) }

\* App::enter_selected_room(run_post_create)
enter_selected_room(w, run_post_create) ==
    LET shown == [w EXCEPT !.main_scene_visible = TRUE]
        size == calculate_pty_size(shown)
        hooks(g) ==
            LET focused == [g EXCEPT !.focus = "MainScene"]
                created == IF run_post_create
                           THEN run_hook_commands(focused, POST_CREATE)
                           ELSE { focused }
            IN  UNION { run_hook_commands(x, POST_ENTER) : x \in created }
    IN  UNION { IF g.ret THEN hooks(g) ELSE { g } :
                  g \in get_or_create_session(shown, size[1], size[2]) }

Returned(r) == [ok |-> r.ok, err |-> r.err, value |-> r.value]

\* the results git can give to command c in the environment (dsk, wts)
GitAllowed(dsk, wts, c) ==
    IF c.cmd = "rev-parse" THEN GitRevParseResults(wts, Unwrap(c.branch))
    ELSE IF c.cmd = "add" THEN GitAddResults(dsk, wts, c.path)
    ELSE IF c.cmd = "move" THEN GitMoveResults(dsk, wts, c.path, c.to)
    ELSE GitRemoveResults(dsk, wts, c.path)

\* the commands an operation ran got results the tool can give
Feasible(dsk, wts, cmds, results) ==
    \A i \in DOMAIN cmds : results[i] \in GitAllowed(dsk, wts, cmds[i])

\* how many rooms the repository of App gets
MaxAppRooms == 2

\* the results git can give to command c now: no checkout is added
\* beyond MaxAppRooms
Allowed(w, c) ==
    IF c.cmd = "add" /\ Len(w.worktrees) > MaxAppRooms
    THEN GitAllowed(w.disk, w.worktrees, c) \ {"ok"}
    ELSE GitAllowed(w.disk, w.worktrees, c)

\* a result that is a failure of the system: the command could have
\* succeeded (rev-parse answers "fail" for a branch that does not exist)
IsFault(w, c, res) ==
    /\ res # "ok"
    /\ "ok" \in Allowed(w, c)
    /\ ~(c.cmd = "rev-parse" /\ res = "fail")

\* whether one of the commands of try t failed
Faulty(w, t) == \E i \in DOMAIN t.r.cmds : IsFault(w, t.r.cmds[i], t.res[i])

\* the tries whose commands got results git can give now
Possible(w, tries) ==
    { t \in tries :
        /\ \A i \in DOMAIN t.r.cmds : t.res[i] \in Allowed(w, t.r.cmds[i])
        /\ Faulty(w, t) => w.faults < MaxFaults }

\* w after the lifecycle operation of try t
After(w, t) ==
    [w EXCEPT !.disk = t.r.disk, !.worktrees = t.r.worktrees,
              !.ret = Returned(t.r),
              !.faults = IF Faulty(w, t) THEN @ + 1 ELSE @]

\* w after the fresh listing of a lifecycle operation failed
NotListed(w, d) ==
    [w EXCEPT !.ret = [ok |-> FALSE, err |-> d.err, value |-> <<>>],
              !.faults = @ + 1]

\* the room names of the checkouts listed now, as the lifecycle operations
\* see them: a RoomsState made from a fresh listing
listed_state(d) ==
    [i \in DOMAIN d.rooms |->
        [name |-> d.rooms[i].name,
         branch |-> IF d.rooms[i].branch = None THEN <<>>
                    ELSE Unwrap(d.rooms[i].branch),
         path |-> d.rooms[i].path,
         status |-> d.rooms[i].status,
         last_error |-> d.rooms[i].last_error]]

\* the fresh listings a lifecycle operation can get
Listings(w) ==
    { discover_rooms(w.disk, w.worktrees, rooms_dir, <<>>, ls) :
        ls \in Outcomes(w, ListResults, {"fail"}) }

\* create_room(repo_root, rooms_dir, options): create_room_in_repo over the
\* rooms of a fresh listing
App_create_room(w, options) ==
    LET outcomes(st) ==
            Possible(w,
                { [r |-> create_room_in_repo(st, w.disk, w.worktrees, options,
                                             gen, rev, add),
                   res |-> <<rev, add>>] :
                    gen \in IF options.name = None
                            THEN generate_unique_room_name(
                                     {st[i].name : i \in DOMAIN st}, now)
                            ELSE { <<>> },
                    rev \in {"ok", "fail", "exec"},
                    add \in {"ok", "fail", "exec"} })
    IN  UNION { IF ~d.ok
                THEN { NotListed(w, d) }
                ELSE { After(w, t) : t \in outcomes(listed_state(d)) } :
                  d \in Listings(w) }

\* rename_room(repo_root, rooms_dir, current_name, new_name)
App_rename_room(w, current_name, new_name) ==
    LET outcomes(st) ==
            Possible(w,
                { [r |-> rename_room(st, w.disk, w.worktrees, current_name,
                                     new_name, mv),
                   res |-> <<mv>>] : mv \in {"ok", "fail", "exec"} })
    IN  UNION { IF ~d.ok
                THEN { NotListed(w, d) }
                ELSE { After(w, t) : t \in outcomes(listed_state(d)) } :
                  d \in Listings(w) }

\* remove_room(repo_root, rooms_dir, name, force)
App_remove_room(w, room_name, force) ==
    LET outcomes(st) ==
            Possible(w,
                { [r |-> remove_room(st, w.disk, w.worktrees, room_name, force, rm),
                   res |-> <<rm>>] : rm \in GitResults })
    IN  UNION { IF ~d.ok
                THEN { NotListed(w, d) }
                ELSE { After(w, t) : t \in outcomes(listed_state(d)) } :
                  d \in Listings(w) }

\* prune_worktrees_from(repo_root): git worktree prune forgets the
\* checkouts whose directory is gone
prune_worktrees_from(w) ==
    { IF res = "ok"
      THEN [w EXCEPT !.ret = TRUE,
                     !.worktrees = SelectSeq(@, LAMBDA e : canonical(e.path) \in w.disk)]
      ELSE [w EXCEPT !.ret = FALSE, !.faults = @ + 1] :
        res \in Outcomes(w, {"ok", "fail"}, {"fail"}) }

\* what the step was, for the history
Did(w, kind, name, ok) ==
    [w EXCEPT !.kind = kind, !.name = name, !.ok = ok, !.ret = FALSE]

\* create_room_*: a creation that never enters the new room
auto_enter_skipped(w, selected) == { w }

\* create_room_*: "Auto-enter the new room and run hooks."
auto_enter(w, selected) ==
    IF selected THEN enter_selected_room(w, TRUE) ELSE { w }

\* the body create_room_silent and create_room_interactive share
create_and_enter(w, options) ==
    LET after(x) ==
            LET room_name == x.ret.value
                selecting(y) ==
                    LET idx == position(y.rooms, room_name)
                        at == IF idx # None
                              THEN [y EXCEPT !.selected_index = Unwrap(idx)]
                              ELSE y
                    IN  { Did([z EXCEPT !.status_message = Some("Created room")],
                              "create", room_name, TRUE) :
                            z \in auto_enter(at, idx # None) }
            IN  UNION { selecting(y) : y \in refresh_rooms(x) }
    IN  UNION { IF x.ret.ok THEN after(x)
                ELSE { Did([x EXCEPT !.status_message = Some("Failed to create room")],
                           "create", <<>>, FALSE) } :
                  x \in App_create_room(w, options) }

\* App::create_room_silent
create_room_silent(w) ==
    create_and_enter(w, [name |-> None, branch |-> None, base_branch |-> None])

\* App::create_room_interactive(room_name, branch_name)
create_room_interactive(w, room_name, branch_name) ==
    create_and_enter(w, [name |-> room_name, branch |-> branch_name,
                         base_branch |-> None])

\* a caller that keeps the session and the overlay entry of a room that
\* is gone
retire_nothing(w, name) == w

\* delete_room and apply_room_rename on success: sessions.remove(name) and
\* transient.remove(name)
retire(w, name) ==
    [w EXCEPT !.sessions = map_remove(@, name),
              !.transient = transient_remove(@, name),
              !.calls = @ \o
                  << Call("sessions.remove", name, name \in DOMAIN w.sessions, <<>>),
                     Call("transient.remove", name, name \in DOMAIN w.transient, <<>>) >>]

\* App::delete_room(room_name)
delete_room(w, room_name) ==
    UNION { IF x.ret.ok
            THEN { Did([y EXCEPT !.status_message = Some("Deleted room")],
                       "delete", x.ret.value, TRUE) :
                     y \in refresh_rooms(retire(x, x.ret.value)) }
            ELSE { Did([x EXCEPT !.status_message = Some("Failed to delete room")],
                       "delete", room_name, FALSE) } :
              x \in App_remove_room(w, room_name, TRUE) }

\* the results DirtyStatus::check(path) can have
DirtyResults(dsk, path) ==
    IF canonical(path) \notin dsk THEN {"clean"} ELSE {"clean", "dirty", "err"}

\* App::start_room_deletion
start_room_deletion(w) ==
    LET room == Unwrap(selected_room_info(w))
    IN  IF selected_room_info(w) = None
        THEN { [w EXCEPT !.status_message = Some("No room selected")] }
        ELSE IF room.is_primary
        THEN { [w EXCEPT !.status_message = Some("Cannot delete the primary worktree")] }
        ELSE { [Faulted(w, res, {"err"}) EXCEPT
                  !.status_message =
                      IF res = "err" THEN Some("Warning: couldn't check status") ELSE @,
                  !.confirm = [kind |-> "DeleteRoom", room_name |-> room.name,
                               dirty_status |-> IF res = "err" THEN None ELSE Some(res),
                               selected_confirm |-> FALSE]] :
                 res \in Outcomes(w, DirtyResults(w.disk, room.path), {"err"}) }

\* an immediate delete that does not look at is_primary
delete_room_immediate_unguarded(w) ==
    LET room == Unwrap(selected_room_info(w))
    IN  IF selected_room_info(w) = None
        THEN { [w EXCEPT !.status_message = Some("No room selected")] }
        ELSE delete_room(w, room.name)

\* App::delete_room_immediate
delete_room_immediate(w) ==
    LET room == Unwrap(selected_room_info(w))
    IN  IF selected_room_info(w) = None
        THEN { [w EXCEPT !.status_message = Some("No room selected")] }
        ELSE IF room.is_primary
        THEN { [w EXCEPT !.status_message = Some("Cannot delete the primary worktree")] }
        ELSE delete_room(w, room.name)

\* App::handle_confirm_key with ConfirmState::confirm, ::cancel and
\* ::toggle_selection
\* a dialog whose Enter deletes whatever is selected
handle_confirm_key_eager(w, key) ==
    LET cancelled == [w EXCEPT !.confirm = NoConfirm]
    IN  IF key = "Esc" \/ key = "n" THEN { cancelled }
        ELSE IF key = "Enter" \/ key = "y"
        THEN IF w.confirm.kind = "DeleteRoom"
             THEN delete_room(cancelled, w.confirm.room_name)
             ELSE { w }
        ELSE IF key = "Tab"
        THEN { IF w.confirm.kind = "DeleteRoom"
               THEN [w EXCEPT !.confirm.selected_confirm = ~@] ELSE w }
        ELSE { w }

handle_confirm_key(w, key) ==
    LET cancelled == [w EXCEPT !.confirm = NoConfirm]
    IN  IF key = "Esc" \/ key = "n" THEN { cancelled }
        ELSE IF key = "Enter"
        THEN IF w.confirm.kind = "DeleteRoom" /\ w.confirm.selected_confirm
             THEN delete_room(cancelled, w.confirm.room_name)
             ELSE { cancelled }
        ELSE IF key = "Tab"
        THEN { IF w.confirm.kind = "DeleteRoom"
               THEN [w EXCEPT !.confirm.selected_confirm = ~@] ELSE w }
        ELSE IF key = "y"
        THEN IF w.confirm.kind = "DeleteRoom"
             THEN delete_room(cancelled, w.confirm.room_name)
             ELSE { w }
        ELSE { w }

\* App::start_room_rename with PromptState::start_room_rename
start_room_rename(w) ==
    LET room == Unwrap(selected_room_info(w))
    IN  IF selected_room_info(w) = None
        THEN { [w EXCEPT !.status_message = Some("No room selected")] }
        ELSE IF room.is_primary
        THEN { [w EXCEPT !.status_message = Some("Cannot rename the primary worktree")] }
        ELSE { [w EXCEPT !.prompt = [kind |-> "RenameRoom", room_name |-> None,
                                     current_name |-> room.name]] }

\* App::apply_room_rename(old_name, new_name)
apply_room_rename(w, old_name, new_name) ==
    IF new_name = <<>>
    THEN { Did([w EXCEPT !.status_message =
                    Some("Rename cancelled: name cannot be empty")],
               "rename", old_name, FALSE) }
    ELSE UNION { IF x.ret.ok
                 THEN { Did([y EXCEPT !.status_message = Some("Renamed")],
                            "rename", old_name, TRUE) :
                          y \in refresh_rooms(retire(x, old_name)) }
                 ELSE { Did([x EXCEPT !.status_message = Some("Failed to rename room")],
                            "rename", old_name, FALSE) } :
                   x \in App_rename_room(w, old_name, new_name) }

\* TextInput::get_value
get_value(value) == IF value = <<>> THEN None ELSE Some(value)

\* App::handle_prompt_key with PromptState::advance and ::cancel
\*   value: what the text input holds when the key arrives
handle_prompt_key(w, key, value) ==
    IF key = "Esc" THEN { [w EXCEPT !.prompt = NoPrompt] }
    ELSE IF key = "Enter"
    THEN IF w.prompt.kind = "RenameRoom"
         THEN apply_room_rename([w EXCEPT !.prompt = NoPrompt],
                                w.prompt.current_name, value)
         ELSE IF w.prompt.kind = "RoomName"
         THEN { [w EXCEPT !.prompt = [kind |-> "BranchName",
                                      room_name |-> get_value(value),
                                      current_name |-> <<>>]] }
         ELSE IF w.prompt.kind = "BranchName"
         THEN create_room_interactive([w EXCEPT !.prompt = NoPrompt],
                                      w.prompt.room_name, get_value(value))
         ELSE { w }
    ELSE { w }

\* App::select_next
select_next(w) ==
    IF Len(w.rooms) > 0
    THEN [w EXCEPT !.selected_index = (@ + 1) % Len(w.rooms),
                   !.scrollback_offset = 0, !.prev_scrollback_offset = 0]
    ELSE w

\* App::select_previous
select_previous(w) ==
    IF Len(w.rooms) > 0
    THEN [w EXCEPT !.selected_index = IF @ = 0 THEN Len(w.rooms) - 1 ELSE @ - 1,
                   !.scrollback_offset = 0, !.prev_scrollback_offset = 0]
    ELSE w

\* App::handle_sidebar_key
handle_sidebar_key(w, key) ==
    LET room == Unwrap(selected_room_info(w))
    IN  IF key = "j" THEN { select_next(w) }
        ELSE IF key = "k" THEN { select_previous(w) }
        ELSE IF key = "Enter"
        THEN IF ~w.main_scene_visible \/ selected_room_info(w) = None THEN { w }
             ELSE IF room_is_failed(room)
             THEN IF room.is_prunable
                  THEN UNION {
                         IF x.ret
                         THEN { [y EXCEPT !.status_message =
                                     Some("Ran git worktree prune")] :
                                  y \in refresh_rooms(x) }
                         ELSE { [x EXCEPT !.status_message =
                                     Some("Failed to prune worktrees")] } :
                           x \in prune_worktrees_from(w) }
                  ELSE { [w EXCEPT !.status_message =
                             Some("Cannot open failed worktree")] }
             ELSE { Did(x, "enter", room.name, x.ret) :
                      x \in enter_selected_room(w, FALSE) }
        ELSE IF key = "a"
        THEN { [w EXCEPT !.prompt = [kind |-> "RoomName", room_name |-> None,
                                     current_name |-> <<>>]] }
        ELSE IF key = "A" THEN create_room_silent(w)
        ELSE IF key = "d" THEN start_room_deletion(w)
        ELSE IF key = "D" THEN delete_room_immediate(w)
        ELSE IF key = "r" THEN start_room_rename(w)
        ELSE IF key = "R"
        THEN { Did(IF x.ret
                   THEN [x EXCEPT !.status_message = Some("Rooms refreshed")]
                   ELSE x, "refresh", <<>>, x.ret) : x \in refresh_rooms(w) }
        ELSE { w }

\* App::handle_main_scene_key for a key that is forwarded to the terminal
handle_main_scene_key(w, key) ==
    LET name == IF current_session(w) = None THEN <<>>
                ELSE Unwrap(current_session(w))
        rows == w.sessions[name].parser_size[2]
    IN  IF key = "PageUp"
        THEN { Did(IF current_session(w) = None THEN w
                   ELSE [w EXCEPT !.scrollback_offset =
                                      min(@ + rows, SCROLLBACK_LINES)],
                   "scroll", name, current_session(w) # None) }
        ELSE IF key = "PageDown"
        THEN { Did(IF current_session(w) = None THEN w
                   ELSE [w EXCEPT !.scrollback_offset = max(@ - rows, 0)],
                   "scroll", name, current_session(w) # None) }
        ELSE { Did(x, "write", name, current_session(w) # None) :
                 x \in write_to_pty(w, <<key>>, TRUE) }

\* App::handle_key
handle_key(w, key, value) ==
    IF w.confirm.kind # "None" THEN handle_confirm_key(w, key)
    ELSE IF w.prompt.kind # "None" THEN handle_prompt_key(w, key, value)
    ELSE IF w.focus = "MainScene"
    THEN IF key = "Ctrl+b"
         THEN { [w EXCEPT !.sidebar_visible = TRUE, !.focus = "Sidebar"] }
         ELSE handle_main_scene_key(w, key)
    ELSE IF key = "Ctrl+b"
    THEN { [w EXCEPT !.sidebar_visible = ~@,
                     !.focus = IF w.sidebar_visible /\ w.focus = "Sidebar"
                               THEN "MainScene" ELSE @] }
    ELSE IF key = "Esc" THEN { w }
    ELSE handle_sidebar_key(w, key)

\* the top of main_loop after the sessions' output was processed: the
\* terminal's size is read, every session is resized to the size of the
\* main scene and the scrollback offset is applied when it changed
main_loop_frame(w, size) ==
    LET sized == [w EXCEPT !.last_size = size]
        geometry == calculate_pty_size(sized)
        resized(n) == PtySession_resize(w.sessions[n], geometry[1], geometry[2])
        names == DOMAIN w.sessions
        room == Unwrap(selected_room_info(w))
        changed == selected_room_info(w) # None
                   /\ w.scrollback_offset # w.prev_scrollback_offset
    IN  [sized EXCEPT
           !.sessions =
               [n \in names |->
                   IF changed /\ n = room.name
                   THEN set_scrollback(resized(n).session, w.scrollback_offset)
                   ELSE resized(n).session],
           !.prev_scrollback_offset = IF changed THEN w.scrollback_offset ELSE @,
           !.calls =
               [n \in names |->
                   [calls |-> resized(n).calls,
                    from |-> w.sessions[n].parser_size,
                    to |-> geometry]],
           !.kind = "frame"]

----------------------------------------------------------------------------
(* The lifecycle operations called on a RoomsState (specification SpecLib). *)

\* the options callers pass to create_room: a generated name, a name that
\* needs sanitizing, a name nothing is left of, and a name with its own
\* branch and base branch
CreateOptions ==
    { [name |-> None, branch |-> None, base_branch |-> None],
      [name |-> Some(<<"A"," ","b">>), branch |-> None, base_branch |-> None],
      [name |-> Some(<<"-">>), branch |-> None, base_branch |-> None],
      [name |-> Some(<<"r","o","o","m","-","0">>),
       branch |-> Some(<<"A"," ","b">>), base_branch |-> Some(<<"m">>)] }
\* what callers pass as the new name of a rename
NewNames == { <<"r","o","o","m","-","0">>, <<"a","-","b">>, <<"a","/","b">> }
\* the names of the rooms found in the state file at start
InitNames == { <<"q","u","i","c","k","-","f","o","x","-","0","0","0","0">>,
               <<"r","o","o","m","-","0">> }

Option(S) == {None} \cup {Some(x) : x \in S}

PrimaryWorktree == [path |-> PrimaryPath, branch |-> Some(<<"m">>), locked |-> None]

\* the sequences of pairwise distinct elements of S, of length at most n
RECURSIVE DistinctSeqs(_, _)
DistinctSeqs(S, n) ==
    IF n = 0 \/ S = {} THEN { <<>> }
    ELSE { <<>> } \cup
         UNION { { <<x>> \o rest : rest \in DistinctSeqs(S \ {x}, n - 1) } :
                    x \in S }

\* A room of the state file is "present" (checkout registered, directory
\* there), "missing" (registered, directory deleted) or "pruned" (the
\* directory was deleted and the registration pruned).
Conditions == {"present", "missing", "pruned"}

\* directories below the rooms directory that no checkout is registered
\* at: what an aborted creation left behind
StaleDirs == { join(RoomsDir, <<"a","-","b">>) }

InitRoom(name) ==
    [Room_new(name, name, join(RoomsDir, name)) EXCEPT !.status = "Ready"]

\* what a caller passed to the lifecycle call: the name of the room, the
\* new name of a rename, the force flag of a remove, the options of a create
NoOptions == [name |-> None, branch |-> None, base_branch |-> None]
Args(name, new_name, force, options) ==
    [name |-> name, new_name |-> new_name, force |-> force, options |-> options]

\* the result of a call, the commands it ran, the room it returned and
\* what it was called with
outcome_of(r, args, gen, results) ==
    [op |-> r.op, ok |-> r.ok, err |-> r.err, value |-> r.value,
     cmds |-> r.cmds, room |-> r.room, args |-> args, gen |-> gen,
     results |-> SubSeq(results, 1, Len(r.cmds))]

NoOutcome ==
    [op |-> "", ok |-> FALSE, err |-> "", value |-> <<>>, cmds |-> <<>>,
     room |-> NoRoom, args |-> Args(<<>>, <<>>, FALSE, NoOptions),
     gen |-> <<>>, results |-> <<>>]

InitLibState ==
    \E names \in DistinctSeqs(InitNames, MaxRooms) :
    \E cond \in [Range(names) -> Conditions], stale \in SUBSET StaleDirs :
        /\ state = [i \in DOMAIN names |-> InitRoom(names[i])]
        /\ disk = {RoomsDir, PrimaryPath} \cup stale \cup
                  {join(RoomsDir, n) : n \in {m \in Range(names) : cond[m] = "present"}}
        /\ worktrees = <<PrimaryWorktree>> \o
              LET reg(r) == cond[r.name] # "pruned"
                  regd == SelectSeq([i \in DOMAIN names |-> InitRoom(names[i])], reg)
              IN  [i \in DOMAIN regd |->
                     [path |-> regd[i].path, branch |-> Some(regd[i].branch),
                      locked |-> None]]
        /\ now = 0
        /\ outcome = NoOutcome

\* App::new before the first discovery: the fields' initial values
AppFreshIn(dir) ==
    /\ rooms_dir = dir
    /\ rooms = <<>>
    /\ transient = <<>>
    /\ selected_index = 0
    /\ focus = "Sidebar"
    /\ sidebar_visible = TRUE
    /\ main_scene_visible = TRUE
    /\ status_message = None
    /\ prompt = NoPrompt
    /\ confirm = NoConfirm
    /\ sessions = <<>>
    /\ scrollback_offset = 0
    /\ prev_scrollback_offset = 0
    /\ last_size = <<0, 0>>
    /\ pc = "frame"
    /\ drain = <<>>
    /\ spawned = 0
    /\ faults = 0
    /\ event = NoEvent

AppFresh == AppFreshIn(RoomsDir)

InitLib == InitLibState /\ AppFresh

\* create_room(rooms_dir, state, options)
CreateRoom ==
    \E options \in CreateOptions :
    \E gen \in IF options.name = None
               THEN generate_unique_room_name(
                        {state[i].name : i \in DOMAIN state}, now)
               ELSE { <<>> } :
    \E rev \in {"ok", "fail", "exec"} :
    \E add \in IF rev = "exec" THEN {"exec"} ELSE {"ok", "fail", "exec"} :
    \E r \in { create_room_in_repo(state, disk, worktrees, options,
                                    gen, rev, add) } :
        /\ Len(state) < MaxRooms
        /\ r.cmds = <<>> => rev = "exec"
        /\ Feasible(disk, worktrees, r.cmds, <<rev, add>>)
        /\ state' = r.state
        /\ disk' = r.disk
        /\ worktrees' = r.worktrees
        /\ outcome' = outcome_of(r, Args(<<>>, <<>>, FALSE, options), gen, <<rev, add>>)
        /\ UNCHANGED <<now>>
        /\ UNCHANGED app_vars

\* the names a caller can ask to rename or remove
KnownOrNot == {state[i].name : i \in DOMAIN state} \cup { <<"a","-","b">> }

\* rename_room(repo_root, rooms_dir, state, current_name, new_name)
RenameRoom ==
    \E current_name \in KnownOrNot, new_name \in NewNames,
       mv \in {"ok", "fail", "exec"} :
    \E r \in { rename_room(state, disk, worktrees, current_name, new_name, mv) } :
        /\ r.cmds = <<>> => mv = "exec"
        /\ Feasible(disk, worktrees, r.cmds, <<mv>>)
        /\ state' = r.state
        /\ disk' = r.disk
        /\ worktrees' = r.worktrees
        /\ outcome' = outcome_of(r, Args(current_name, new_name, FALSE, NoOptions), <<>>, <<mv>>)
        /\ UNCHANGED <<now>>
        /\ UNCHANGED app_vars

\* remove_room(state, room_name, force)
RemoveRoom ==
    \E room_name \in KnownOrNot, force \in BOOLEAN, rm \in GitResults :
    \E r \in { remove_room(state, disk, worktrees, room_name, force, rm) } :
        /\ r.cmds = <<>> => rm = "exec"
        /\ Feasible(disk, worktrees, r.cmds, <<rm>>)
        /\ state' = r.state
        /\ disk' = r.disk
        /\ worktrees' = r.worktrees
        /\ outcome' = outcome_of(r, Args(room_name, <<>>, force, NoOptions), <<>>, <<rm>>)
        /\ UNCHANGED <<now>>
        /\ UNCHANGED app_vars

\* a second passes
Tick ==
    /\ now < MaxTime
    /\ now' = now + 1
    /\ UNCHANGED <<disk, worktrees>>
    /\ UNCHANGED lib_vars
    /\ UNCHANGED app_vars

NextLib == CreateRoom \/ RenameRoom \/ RemoveRoom \/ Tick

SpecLib == InitLib /\ [][NextLib]_vars

\* C1: no two rooms of the room state share a name.
C1_UniqueNames ==
    \A i, j \in DOMAIN state : state[i].name = state[j].name => i = j

\* the error a rename is to be rejected with, "" when it is to go ahead:
\* the cases in the order the claim lists them
RenameRejection(st, dsk, current_name, new_name) ==
    IF validate_room_name(new_name) # "ok" THEN "InvalidName"
    ELSE IF current_name = new_name THEN "SameName"
    ELSE IF \E i \in DOMAIN st : st[i].name = new_name THEN "NameExists"
    ELSE IF \A i \in DOMAIN st : st[i].name # current_name THEN "NotFound"
    ELSE IF join(RoomsDir, new_name) \in dsk THEN "PathExists"
    ELSE ""

\* this step is a call of the lifecycle operation op (the clock stands
\* still in it)
LibCall(op) == outcome'.op = op /\ now' = now

\* the lifecycle call of this step left the rooms, the directories and the
\* registry as they were and ran no command
Untouched ==
    /\ outcome'.cmds = <<>>
    /\ state' = state
    /\ disk' = disk
    /\ worktrees' = worktrees

\* C11: a rename with an invalid new name, with the current name as the
\* new name, with a new name a room has, of a room that is not known, or
\* to a path that exists fails with the error of its case, runs no
\* command and changes nothing
C11_RenameRejects ==
    [][ ( /\ LibCall("rename")
          /\ RenameRejection(state, disk, outcome'.args.name,
                             outcome'.args.new_name) # "" ) =>
            /\ ~outcome'.ok
            /\ outcome'.err = RenameRejection(state, disk, outcome'.args.name,
                                              outcome'.args.new_name)
            /\ Untouched
      ]_vars

\* a rename of a known room to a free, valid name was rejected because a
\* directory is in the way
C11_Witness ==
    /\ outcome.op = "rename"
    /\ outcome.err = "PathExists"
    /\ outcome.cmds = <<>>
    /\ \E i \in DOMAIN state : state[i].name = outcome.args.name

\* C13: a remove of a name no room has fails with NotFound, runs no
\* command and changes nothing; a remove that succeeds returns the name it
\* was given and leaves no room of that name, and the same remove called
\* again at once fails with NotFound
C13_RemoveThenNotFound ==
    [][ LibCall("remove") =>
          /\ (\A i \in DOMAIN state : state[i].name # outcome'.args.name) =>
                /\ ~outcome'.ok
                /\ outcome'.err = "NotFound"
                /\ Untouched
          /\ outcome'.ok =>
                /\ outcome'.value = outcome'.args.name
                /\ \A i \in DOMAIN state' : state'[i].name # outcome'.args.name
          /\ ( /\ outcome.op = "remove" /\ outcome.ok
               /\ outcome'.args.name = outcome.value ) =>
                /\ ~outcome'.ok
                /\ outcome'.err = "NotFound"
      ]_vars

\* the name and the branch a creation called as in outcome o settles on
TargetName(o) ==
    IF o.args.options.name # None
    THEN sanitize_room_name(Unwrap(o.args.options.name))
    ELSE o.gen
TargetBranch(o) ==
    IF o.args.options.branch # None
    THEN sanitize_room_name(Unwrap(o.args.options.branch))
    ELSE TargetName(o)

\* the creation called as in outcome o got past the checks of its name
NameResolved(st, o) ==
    o.args.options.name # None =>
        /\ validate_room_name(TargetName(o)) = "ok"
        /\ \A i \in DOMAIN st : st[i].name # TargetName(o)

\* C14: a creation under a given name whose sanitized form is the name of
\* a room of the state fails with NameExists, runs no command, creates no
\* directory and leaves the state as it was
C14_GivenNameTaken ==
    [][ ( /\ LibCall("create")
          /\ outcome'.args.options.name # None
          /\ \E i \in DOMAIN state : state[i].name = TargetName(outcome') ) =>
            /\ ~outcome'.ok
            /\ outcome'.err = "NameExists"
            /\ Untouched
      ]_vars

C14_Witness ==
    /\ outcome.op = "create"
    /\ outcome.err = "NameExists"
    /\ outcome.args.options.name = Some(<<"A"," ","b">>)
    /\ \E i \in DOMAIN state : state[i].name = <<"a","-","b">>

\* C15: a creation whose target path roomsDir/name is on disk fails with
\* WorktreeCreation without having run the branch query or a worktree add,
\* and leaves the state as it was
C15_TargetPathExists ==
    [][ ( /\ LibCall("create")
          /\ NameResolved(state, outcome')
          /\ join(RoomsDir, TargetName(outcome')) \in disk ) =>
            /\ ~outcome'.ok
            /\ outcome'.err = "WorktreeCreation"
            /\ Untouched
      ]_vars

C15_Witness ==
    /\ outcome.op = "create"
    /\ outcome.err = "WorktreeCreation"
    /\ outcome.cmds = <<>>
    /\ outcome.args.options.name = Some(<<"A"," ","b">>)
    /\ join(RoomsDir, <<"a","-","b">>) \in disk
    /\ \A i \in DOMAIN state : state[i].name # <<"a","-","b">>

\* C16: a creation that gets to run commands asks first whether the branch
\* exists; when it does, the checkout is added on that branch with no base
\* and no new branch, whatever baseBranch is; when it does not, the branch
\* is created with -b from baseBranch if one is given and from HEAD if not
C16_CommandFromBranchQuery ==
    [][ ( LibCall("create") /\ outcome'.cmds # <<>> ) =>
            /\ outcome'.cmds[1] = CmdRevParse(TargetBranch(outcome'))
            /\ Len(outcome'.cmds) = IF outcome'.results[1] = "exec" THEN 1 ELSE 2
            /\ Len(outcome'.cmds) = 2 =>
                  outcome'.cmds[2] =
                     IF outcome'.results[1] = "ok"
                     THEN CmdAdd(join(RoomsDir, TargetName(outcome')),
                                 TargetBranch(outcome'), None, FALSE)
                     ELSE CmdAdd(join(RoomsDir, TargetName(outcome')),
                                 TargetBranch(outcome'),
                                 outcome'.args.options.base_branch, TRUE)
      ]_vars

C16_Witness ==
    /\ outcome.op = "create"
    /\ outcome.ok
    /\ outcome.results = <<"ok", "ok">>
    /\ outcome.args.options.base_branch # None
    /\ outcome.cmds[2].base = None
    /\ ~outcome.cmds[2].new_branch

\* C17: a creation that succeeds without a given name returns a room whose
\* name no room of the state had before the call and, when no branch was
\* given, whose branch is that name; with a given name the room has the
\* sanitized given name; the room is appended to the state with status
\* Ready and is then the only room of its name
C17_CreatedRoom ==
    [][ ( LibCall("create") /\ outcome'.ok ) =>
            /\ outcome'.args.options.name = None =>
                  /\ \A i \in DOMAIN state : state[i].name # outcome'.room.name
                  /\ outcome'.args.options.branch = None =>
                        outcome'.room.branch = outcome'.room.name
            /\ outcome'.args.options.name # None =>
                  outcome'.room.name =
                      sanitize_room_name(Unwrap(outcome'.args.options.name))
            /\ outcome'.room.status = "Ready"
            /\ state' = Append(state, outcome'.room)
            /\ Cardinality({ i \in DOMAIN state' :
                                state'[i].name = outcome'.room.name }) = 1
      ]_vars

\* the call of outcome o ran a git command that could not be launched or
\* exited non-zero: the branch query that could not run, the worktree add,
\* move or remove that did not succeed (a branch query answering "no such
\* branch" is an answer, not a failure)
BackendFailed(o) ==
    /\ o.results # <<>>
    /\ IF o.op = "create"
       THEN o.results[1] = "exec" \/ (Len(o.results) = 2 /\ o.results[2] # "ok")
       ELSE o.results[1] # "ok"

\* a remove without force whose git command answered "is not a working tree"
AlreadyGone(o) ==
    /\ o.op = "remove"
    /\ ~o.args.force
    /\ o.results = <<"not_wt">>

\* C18 as stated: whenever the git command of a create, rename or remove
\* cannot be launched or exits non-zero, the call returns an error and the
\* state is what it was before the call
C18_BackendFailureKeepsState ==
    [][ ( /\ \E op \in {"create", "rename", "remove"} : LibCall(op)
          /\ BackendFailed(outcome') ) =>
            /\ ~outcome'.ok
            /\ state' = state
      ]_vars

\* C18: whenever the git command of a create, rename or remove cannot be
\* launched or exits non-zero, the call returns an error and the state is
\* what it was before the call, except that a remove without force whose
\* command reports "is not a working tree" succeeds: it returns the name
\* and takes one room of that name out of the state
C18_BackendFailureOrGone ==
    [][ ( /\ \E op \in {"create", "rename", "remove"} : LibCall(op)
          /\ BackendFailed(outcome') ) =>
            IF AlreadyGone(outcome')
            THEN /\ outcome'.ok
                 /\ outcome'.value = outcome'.args.name
                 /\ Len(state') = Len(state) - 1
                 /\ \E i \in DOMAIN state :
                       /\ state[i].name = outcome'.args.name
                       /\ state' = SubSeq(state, 1, i - 1) \o
                                   SubSeq(state, i + 1, Len(state))
            ELSE /\ ~outcome'.ok
                 /\ outcome'.err \in {"GitError", "WorktreeCreation",
                                      "WorktreeMove", "WorktreeRemoval"}
                 /\ state' = state
      ]_vars

C18_Witness ==
    /\ outcome.op = "create"
    /\ outcome.results = <<"fail", "fail">>
    /\ outcome.err = "WorktreeCreation"
    /\ Len(outcome.cmds) = 2

\* C33: after a successful rename from old to new the state has a room
\* named new at rooms_dir/new with the branch it had, has no room named old,
\* has every other room as it was, and the call returned the old name
C33_RenamedRoom ==
    [][ (LibCall("rename") /\ outcome'.ok) =>
          /\ outcome'.value = outcome'.args.name
          /\ Len(state') = Len(state)
          /\ \A i \in DOMAIN state' : state'[i].name # outcome'.args.name
          /\ \E i \in DOMAIN state :
                /\ state[i].name = outcome'.args.name
                /\ state'[i].name = outcome'.args.new_name
                /\ state'[i].path = join(RoomsDir, outcome'.args.new_name)
                /\ state'[i].branch = state[i].branch
                /\ \A j \in DOMAIN state : j # i => state'[j] = state[j]
      ]_vars

\* C31: a remove whose git command fails with "is not a working tree"
\* succeeds, with force and without it: it returns the name and never
\* WorktreeRemoval
C31_NotAWorkingTreeIsSuccess ==
    [][ (LibCall("remove") /\ outcome'.results = <<"not_wt">>) =>
            /\ outcome'.ok
            /\ outcome'.err # "WorktreeRemoval"
            /\ outcome'.value = outcome'.args.name
      ]_vars

----------------------------------------------------------------------------
(* The naming functions on their own (specification SpecNaming): a call of  *)
(* sanitize_room_name followed by validate_room_name on its result, and a   *)
(* call of generate_unique_room_name, one turn of its loop at a time        *)
(* (specification SpecGenerate).                                            *)
(* `outcome` holds the call: the function, where it stands, its input, the  *)
(* value it has so far, validate's answer and the loop's counters; `state`  *)
(* holds the rooms the exists closure of create_room_in_repo looks at.      *)

\* longest free-form input tried in full
MaxInput == 3
\* largest random suffix drawn when generate_unique_room_name is called on
\* its own
MaxDrawn == 1
InputChars == {"a", "A", "0", "-", " "}

RECURSIVE Strings(_, _)
Strings(S, n) ==
    IF n = 0 THEN { <<>> }
    ELSE LET shorter == Strings(S, n - 1)
         IN  shorter \cup { Append(x, c) : x \in shorter, c \in S }

RECURSIVE Repeat(_, _)
Repeat(c, n) == IF n = 0 THEN <<>> ELSE Append(Repeat(c, n - 1), c)

\* the inputs: every short string, and every short string behind a run of
\* letters that brings it to the 40 character limit
NameInputs ==
    Strings(InputChars, MaxInput) \cup
    { Repeat("a", n) \o x : n \in {MAX_NAME_LEN - 2, MAX_NAME_LEN - 1},
                            x \in Strings(InputChars, MaxInput) }

NamingCall(op, input) ==
    [op |-> op, pc |-> "called", input |-> input, value |-> <<>>,
     answer |-> "", asked |-> 0, rejected |-> 0]

InitNaming ==
    /\ disk = {RoomsDir, PrimaryPath}
    /\ worktrees = <<PrimaryWorktree>>
    /\ \E x \in NameInputs, op \in {"sanitize", "validate"} :
          outcome = NamingCall(op, x)
    /\ state = <<>>
    /\ now = 0
    /\ AppFresh

InitGenerate ==
    /\ disk = {RoomsDir, PrimaryPath}
    /\ worktrees = <<PrimaryWorktree>>
    /\ outcome = NamingCall("generate", <<>>)
    /\ \E names \in DistinctSeqs(InitNames \cup generate_room_name_upto(MaxDrawn), MaxRooms) :
          state = [i \in DOMAIN names |-> InitRoom(names[i])]
    /\ now \in 0..MaxTime
    /\ AppFresh

\* sanitize_room_name(&n)
SanitizeName ==
    /\ outcome.op = "sanitize"
    /\ outcome.pc = "called"
    /\ outcome' = [outcome EXCEPT !.pc = "sanitized",
                                  !.value = sanitize_room_name(outcome.input)]
    /\ UNCHANGED <<disk, worktrees, now, state>>
    /\ UNCHANGED app_vars

\* validate_room_name(&sanitized)
ValidateName ==
    /\ outcome.op = "sanitize"
    /\ outcome.pc = "sanitized"
    /\ outcome' = [outcome EXCEPT !.pc = "validated",
                                  !.answer = validate_room_name(outcome.value)]
    /\ UNCHANGED <<disk, worktrees, now, state>>
    /\ UNCHANGED app_vars

\* a draw that returns its candidate without asking exists
draw_unasked(g, name, taken) ==
    [g EXCEPT !.pc = "returned", !.value = name]

\* one turn of the loop of generate_unique_room_name: the candidate is
\* drawn, exists is asked, a free candidate is returned
draw(g, name, taken) ==
    IF ~taken
    THEN [g EXCEPT !.pc = "returned", !.value = name, !.asked = @ + 1]
    ELSE [g EXCEPT !.pc = "loop", !.asked = @ + 1, !.rejected = @ + 1]

\* generate_unique_room_name: a turn of `for _ in 0..100`
Draw ==
    /\ outcome.op = "generate"
    /\ outcome.pc \in {"called", "loop"}
    /\ outcome.rejected < MAX_ATTEMPTS
    /\ \E name \in generate_room_name_upto(MaxDrawn) :
          outcome' = draw(outcome, name, name_exists(state, name))
    /\ UNCHANGED <<disk, worktrees, now, state>>
    /\ UNCHANGED app_vars

\* generate_unique_room_name: the fallback after the loop
Fallback ==
    /\ outcome.op = "generate"
    /\ outcome.pc = "loop"
    /\ outcome.rejected = MAX_ATTEMPTS
    /\ outcome' = [outcome EXCEPT
                      !.pc = "returned",
                      !.value = <<"r","o","o","m","-">> \o format_decimal(now)]
    /\ UNCHANGED <<disk, worktrees, now, state>>
    /\ UNCHANGED app_vars

\* validate_room_name(name) on a name as the caller wrote it
ValidateGiven ==
    /\ outcome.op = "validate"
    /\ outcome.pc = "called"
    /\ outcome' = [outcome EXCEPT !.pc = "validated",
                                  !.answer = validate_room_name(outcome.input)]
    /\ UNCHANGED <<disk, worktrees, now, state>>
    /\ UNCHANGED app_vars

NextNaming == SanitizeName \/ ValidateName \/ ValidateGiven

SpecNaming == InitNaming /\ [][NextNaming]_vars

NextGenerate == Draw \/ Fallback

\* the loop and the fallback are straight-line code: a call that can take
\* a step takes it
SpecGenerate == InitGenerate /\ [][NextGenerate]_vars /\ WF_vars(NextGenerate)

HasAlphanumeric(x) == \E i \in DOMAIN x : is_ascii_alphanumeric(x[i])

C21_ValidExactly ==
    (outcome.op = "validate" /\ outcome.pc = "validated") =>
        /\ outcome.answer # ""
        /\ outcome.answer = "ok" <=>
              /\ Len(outcome.input) \in 1..40
              /\ \A i \in DOMAIN outcome.input :
                    outcome.input[i] \in LowerSet \cup DigitSet \cup {"-"}
              /\ outcome.input[1] # "-"
              /\ outcome.input[Len(outcome.input)] # "-"

C21_Witness ==
    /\ outcome.op = "validate"
    /\ outcome.pc = "validated"
    /\ outcome.answer = "ok"
    /\ Len(outcome.input) = 40
    /\ \E i \in DOMAIN outcome.input : outcome.input[i] = "-"

IsFallbackName(x) ==
    /\ starts_with(x, <<"r","o","o","m","-">>)
    /\ Len(x) > 5
    /\ \A i \in 6..Len(x) : is_ascii_digit(x[i])

\* C20: generate_unique_room_name asks exists about at most 100 candidates;
\* when at most 99 of them were refused the name it returns is one exists
\* is false for; when all 100 were refused it returns room-<digits>; and
\* every call returns
C20_GenerateUnique ==
    /\ [](outcome.op = "generate" =>
            /\ outcome.asked <= MAX_ATTEMPTS
            /\ outcome.pc = "returned" =>
                  /\ outcome.rejected < MAX_ATTEMPTS =>
                        ~name_exists(state, outcome.value)
                  /\ outcome.rejected = MAX_ATTEMPTS =>
                        IsFallbackName(outcome.value))
    /\ (outcome.op = "generate") ~> (outcome.pc = "returned")

C20_Witness ==
    /\ outcome.op = "generate"
    /\ outcome.pc = "returned"
    /\ outcome.rejected = MAX_ATTEMPTS - 1
    /\ outcome.asked = MAX_ATTEMPTS
    /\ ~name_exists(state, outcome.value)

----------------------------------------------------------------------------
(* ui/selection.rs and the selection functions of ui/app.rs on their own    *)
(* (specification SpecSelection).  A point is <<row, col>>, counted from 0. *)
(* The screen is its size and the contents of its cells; every row holds    *)
(* the same line.  `outcome` holds the call: the function, its inputs and   *)
(* the value it returned.                                                   *)

\* largest number of rows and of columns of a screen; points go one further
MaxGrid == 2

\* a selection that was not reordered
bounds_as_given(selection) ==
    [start_row |-> selection.start[1], start_col |-> selection.start[2],
     end_row |-> selection.end[1], end_col |-> selection.end[2]]

\* Selection::bounds
bounds(selection) ==
    LET row_a == selection.start[1]
        col_a == selection.start[2]
        row_b == selection.end[1]
        col_b == selection.end[2]
    IN  IF row_a < row_b \/ (row_a = row_b /\ col_a <= col_b)
        THEN [start_row |-> row_a, start_col |-> col_a,
              end_row |-> row_b, end_col |-> col_b]
        ELSE [start_row |-> row_b, start_col |-> col_b,
              end_row |-> row_a, end_col |-> col_a]

\* a box: the column range on every row
contains_box(b, row, col) ==
    IF row < b.start_row \/ row > b.end_row THEN FALSE
    ELSE col >= b.start_col /\ col <= b.end_col

\* SelectionBounds::contains
contains(b, row, col) ==
    IF row < b.start_row \/ row > b.end_row THEN FALSE
    ELSE IF b.start_row = b.end_row
         THEN col >= b.start_col /\ col <= b.end_col
    ELSE IF row = b.start_row THEN col >= b.start_col
    ELSE IF row = b.end_row THEN col <= b.end_col
    ELSE TRUE

\* Screen::cell: the contents of a cell of the grid, None outside it
cell(screen, row, col) ==
    IF row < screen.rows /\ col < screen.cols
    THEN Some(screen.line[col + 1])
    ELSE None

\* str::trim_end
RECURSIVE trim_end(_)
trim_end(s) ==
    IF s # <<>> /\ s[Len(s)] = " " THEN trim_end(SubSeq(s, 1, Len(s) - 1))
    ELSE s

\* the line of one row: the first character of every cell from col_start to
\* col_end, a space for an empty cell and for no cell
RECURSIVE line_of(_, _, _, _)
line_of(screen, row, col_start, col_end) ==
    IF col_start > col_end THEN <<>>
    ELSE LET found == cell(screen, row, col_end)
             c == IF found # None /\ Unwrap(found) # <<>>
                  THEN Unwrap(found)[1] ELSE " "
         IN  Append(line_of(screen, row, col_start, col_end - 1), c)

\* the rows first..last, each trimmed at its end, joined by newlines
RECURSIVE lines_of(_, _, _, _)
lines_of(screen, b, first, last) ==
    IF first > last THEN <<>>
    ELSE LET col_start == IF last = b.start_row THEN b.start_col ELSE 0
             col_end == IF last = b.end_row THEN b.end_col
                        ELSE saturating_sub(screen.cols, 1)
             line == trim_end(line_of(screen, last, col_start, col_end))
         IN  IF first = last THEN line
             ELSE lines_of(screen, b, first, last - 1) \o <<"\n">> \o line

\* the cells selection_text asks the screen for
cells_read(screen, b) ==
    { <<row, col>> \in (b.start_row .. b.end_row) \X (0 .. saturating_sub(screen.cols, 1)) :
        /\ col >= (IF row = b.start_row THEN b.start_col ELSE 0)
        /\ col <= (IF row = b.end_row THEN b.end_col
                   ELSE saturating_sub(screen.cols, 1)) }

\* text extraction over the bounds as the selection gives them
selection_text_unclamped(selection, screen) ==
    IF selection = None THEN [text |-> None, read |-> {}]
    ELSE IF screen.rows = 0 \/ screen.cols = 0 THEN [text |-> None, read |-> {}]
    ELSE LET b == bounds(Unwrap(selection))
         IN  [text |-> Some(lines_of(screen, b, b.start_row, b.end_row)),
              read |-> cells_read(screen, b)]

\* App::selection_text: the text, and the cells it asked the screen for
selection_text(selection, screen) ==
    IF selection = None THEN [text |-> None, read |-> {}]
    ELSE IF screen.rows = 0 \/ screen.cols = 0 THEN [text |-> None, read |-> {}]
    ELSE LET given == bounds(Unwrap(selection))
             max_row == saturating_sub(screen.rows, 1)
             max_col == saturating_sub(screen.cols, 1)
             b == [start_row |-> min(given.start_row, max_row),
                   start_col |-> min(given.start_col, max_col),
                   end_row |-> min(given.end_row, max_row),
                   end_col |-> min(given.end_col, max_col)]
         IN  [text |-> Some(lines_of(screen, b, b.start_row, b.end_row)),
              read |-> cells_read(screen, b)]

\* a move from the point as it is given
move_selection_position_unclamped(current, direction, rows, cols) ==
    IF rows = 0 \/ cols = 0 THEN current
    ELSE LET max_row == saturating_sub(rows, 1)
             max_col == saturating_sub(cols, 1)
             row == current[1]
             col == current[2]
         IN  CASE direction = "Left" ->
                    IF col > 0 THEN <<row, col - 1>>
                    ELSE IF row > 0 THEN <<row - 1, max_col>>
                    ELSE <<row, col>>
               [] direction = "Right" ->
                    IF col < max_col THEN <<row, col + 1>>
                    ELSE IF row < max_row THEN <<row + 1, 0>>
                    ELSE <<row, col>>
               [] direction = "Up" ->
                    IF row > 0 THEN <<row - 1, col>> ELSE <<row, col>>
               [] direction = "Down" ->
                    IF row < max_row THEN <<row + 1, col>> ELSE <<row, col>>

\* move_selection_position
move_selection_position(current, direction, rows, cols) ==
    IF rows = 0 \/ cols = 0 THEN current
    ELSE LET max_row == saturating_sub(rows, 1)
             max_col == saturating_sub(cols, 1)
             row == min(current[1], max_row)
             col == min(current[2], max_col)
         IN  CASE direction = "Left" ->
                    IF col > 0 THEN <<row, col - 1>>
                    ELSE IF row > 0 THEN <<row - 1, max_col>>
                    ELSE <<row, col>>
               [] direction = "Right" ->
                    IF col < max_col THEN <<row, col + 1>>
                    ELSE IF row < max_row THEN <<row + 1, 0>>
                    ELSE <<row, col>>
               [] direction = "Up" ->
                    IF row > 0 THEN <<row - 1, col>> ELSE <<row, col>>
               [] direction = "Down" ->
                    IF row < max_row THEN <<row + 1, col>> ELSE <<row, col>>

Points == (0 .. MaxGrid + 1) \X (0 .. MaxGrid + 1)
Selections == [start : Points, end : Points]
CellContents == { <<>>, <<"x">>, <<" ">> }
Screens ==
    UNION { [rows : 0 .. MaxGrid, cols : {n}, line : [1 .. n -> CellContents]] :
            n \in 0 .. MaxGrid }
SelectionMoves == {"Left", "Right", "Up", "Down"}
NoScreen == [rows |-> 0, cols |-> 0, line |-> <<>>]

SelectionCall(op, selection, point, direction, screen) ==
    [op |-> op, pc |-> "called", selection |-> selection, point |-> point,
     direction |-> direction, screen |-> screen, value |-> <<>>]

SelectionCalls ==
    { SelectionCall("bounds", Some(s), <<0, 0>>, "Left", NoScreen) :
        s \in Selections }
    \cup { SelectionCall("contains", Some(s), p, "Left", NoScreen) :
             s \in Selections, p \in Points }
    \cup { SelectionCall("selection_text", s, <<0, 0>>, "Left", g) :
             s \in Option(Selections), g \in Screens }
    \cup { SelectionCall("move", None, p, d, [NoScreen EXCEPT !.rows = r, !.cols = c]) :
             p \in Points, d \in SelectionMoves,
             r \in 0 .. MaxGrid, c \in 0 .. MaxGrid }

InitSelection ==
    /\ disk = {RoomsDir, PrimaryPath}
    /\ worktrees = <<PrimaryWorktree>>
    /\ outcome \in SelectionCalls
    /\ state = <<>>
    /\ now = 0
    /\ AppFresh

Return(value) ==
    /\ outcome.pc = "called"
    /\ outcome' = [outcome EXCEPT !.pc = "returned", !.value = value]
    /\ UNCHANGED <<disk, worktrees, now, state>>
    /\ UNCHANGED app_vars

Bounds ==
    /\ outcome.op = "bounds"
    /\ Return(bounds(Unwrap(outcome.selection)))

\* the test the main scene makes of every cell it draws
Contains ==
    /\ outcome.op = "contains"
    /\ Return(contains(bounds(Unwrap(outcome.selection)),
                       outcome.point[1], outcome.point[2]))

SelectionText ==
    /\ outcome.op = "selection_text"
    /\ Return(selection_text(outcome.selection, outcome.screen))

MoveSelection ==
    /\ outcome.op = "move"
    /\ Return(move_selection_position(outcome.point, outcome.direction,
                                      outcome.screen.rows, outcome.screen.cols))

NextSelection == Bounds \/ Contains \/ SelectionText \/ MoveSelection

SpecSelection == InitSelection /\ [][NextSelection]_vars

\* (row, col) order, rows first
RowMajorLeq(p, q) == p[1] < q[1] \/ (p[1] = q[1] /\ p[2] <= q[2])

\* C22: bounds() of a selection and of the same selection with start and end
\* exchanged are equal, the start of the result is not after its end in
\* row-major order, and the result is the row-major minimum and maximum of
\* the two points
C22_BoundsOrdered ==
    (outcome.op = "bounds" /\ outcome.pc = "returned") =>
        LET a == Unwrap(outcome.selection).start
            b == Unwrap(outcome.selection).end
            lo == <<outcome.value.start_row, outcome.value.start_col>>
            hi == <<outcome.value.end_row, outcome.value.end_col>>
        IN  /\ outcome.value = bounds([start |-> b, end |-> a])
            /\ RowMajorLeq(lo, hi)
            /\ {lo, hi} = {a, b}
            /\ RowMajorLeq(lo, a) /\ RowMajorLeq(lo, b)
            /\ RowMajorLeq(a, hi) /\ RowMajorLeq(b, hi)

C22_Witness ==
    /\ outcome.op = "bounds"
    /\ outcome.pc = "returned"
    /\ Unwrap(outcome.selection).start = <<2, 0>>
    /\ Unwrap(outcome.selection).end = <<1, 3>>
    /\ outcome.value = [start_row |-> 1, start_col |-> 3,
                        end_row |-> 2, end_col |-> 0]

\* C23: for ordered bounds, contains(row, col) is true exactly for the
\* points from the start to the end in row-major order
C23_ContainsRowMajor ==
    (outcome.op = "contains" /\ outcome.pc = "returned") =>
        LET b == bounds(Unwrap(outcome.selection))
        IN  outcome.value =
              (/\ RowMajorLeq(<<b.start_row, b.start_col>>, outcome.point)
               /\ RowMajorLeq(outcome.point, <<b.end_row, b.end_col>>))

\* an interior row is covered left of the start column and right of the end
\* column
C23_Witness ==
    /\ outcome.op = "contains"
    /\ outcome.pc = "returned"
    /\ outcome.value = TRUE
    /\ bounds(Unwrap(outcome.selection)) =
         [start_row |-> 0, start_col |-> 2, end_row |-> 2, end_col |-> 1]
    /\ outcome.point \in {<<1, 0>>, <<1, 3>>}

\* the number of newlines of a text
RECURSIVE Newlines(_)
Newlines(s) ==
    IF s = <<>> THEN 0
    ELSE Newlines(Tail(s)) + (IF Head(s) = "\n" THEN 1 ELSE 0)

\* C24: text extraction only reads cells of the screen, returns one line per
\* row from the clamped start row to the clamped end row, none ending in a
\* blank, and returns nothing when the screen has no rows or no columns
C24_ExtractionInsideScreen ==
    (outcome.op = "selection_text" /\ outcome.pc = "returned"
     /\ outcome.selection # None) =>
        LET rows == outcome.screen.rows
            cols == outcome.screen.cols
            b == bounds(Unwrap(outcome.selection))
            text == outcome.value.text
        IN  /\ \A rc \in outcome.value.read : rc[1] < rows /\ rc[2] < cols
            /\ (rows = 0 \/ cols = 0) <=> text = None
            /\ text # None =>
                 /\ Newlines(Unwrap(text)) =
                      min(b.end_row, rows - 1) - min(b.start_row, rows - 1)
                 /\ \A i \in DOMAIN Unwrap(text) :
                      Unwrap(text)[i] = " " =>
                          /\ i < Len(Unwrap(text))
                          /\ Unwrap(text)[i + 1] # "\n"

\* a selection made on a larger screen, read from a screen of two rows
C24_Witness ==
    /\ outcome.op = "selection_text"
    /\ outcome.pc = "returned"
    /\ outcome.selection = Some([start |-> <<3, 3>>, end |-> <<0, 1>>])
    /\ outcome.screen = [rows |-> 2, cols |-> 2, line |-> << <<"x">>, <<" ">> >>]
    /\ outcome.value.text = Some(<<"\n", "x">>)
    /\ outcome.value.read = {<<0, 1>>, <<1, 0>>, <<1, 1>>}

\* C25: on a grid of at least one row and one column,
\* move_selection_position returns a point of the grid: the point clamped to
\* the grid, moved one cell, with Right wrapping to column 0 of the next row
\* and Left to the last column of the previous row, Up and Down keeping the
\* column, and the clamped point itself when the move would leave the grid
C25_MoveStaysInside ==
    (outcome.op = "move" /\ outcome.pc = "returned"
     /\ outcome.screen.rows >= 1 /\ outcome.screen.cols >= 1) =>
        LET rows == outcome.screen.rows
            cols == outcome.screen.cols
            row == IF outcome.point[1] > rows - 1 THEN rows - 1 ELSE outcome.point[1]
            col == IF outcome.point[2] > cols - 1 THEN cols - 1 ELSE outcome.point[2]
            d == outcome.direction
            to == outcome.value
        IN  /\ to[1] \in 0 .. rows - 1
            /\ to[2] \in 0 .. cols - 1
            /\ (d = "Right" /\ col = cols - 1 /\ row < rows - 1) => to = <<row + 1, 0>>
            /\ (d = "Right" /\ col < cols - 1) => to = <<row, col + 1>>
            /\ (d = "Left" /\ col = 0 /\ row > 0) => to = <<row - 1, cols - 1>>
            /\ (d = "Left" /\ col > 0) => to = <<row, col - 1>>
            /\ (d = "Up" /\ row > 0) => to = <<row - 1, col>>
            /\ (d = "Down" /\ row < rows - 1) => to = <<row + 1, col>>
            /\ (d = "Right" /\ col = cols - 1 /\ row = rows - 1) => to = <<row, col>>
            /\ (d = "Left" /\ col = 0 /\ row = 0) => to = <<row, col>>
            /\ (d = "Up" /\ row = 0) => to = <<row, col>>
            /\ (d = "Down" /\ row = rows - 1) => to = <<row, col>>

\* Right from a point outside the grid, on the last column of the first row
C25_Witness ==
    /\ outcome.op = "move"
    /\ outcome.pc = "returned"
    /\ outcome.point = <<0, 3>>
    /\ outcome.direction = "Right"
    /\ outcome.screen.rows = 2
    /\ outcome.screen.cols = 2
    /\ outcome.value = <<1, 0>>

----------------------------------------------------------------------------
(* git/worktree.rs: parsing the text of `git worktree list --porcelain`     *)
(* (specification SpecParse).  The text is a sequence of characters; the    *)
(* listings are the ones git writes: the main checkout first (bare, on a    *)
(* branch or detached), then linked checkouts, each with its optional       *)
(* locked and prunable lines, and the text as a whole with or without its   *)
(* last newlines.  `outcome` holds the call: the blocks the text was        *)
(* written from, the text, the parsed checkouts and the room records made   *)
(* from them.                                                               *)

\* most linked checkouts in a listing
MaxLinked == 2

\* str::strip_prefix
strip_prefix(s, p) ==
    IF starts_with(s, p) THEN Some(SubSeq(s, Len(p) + 1, Len(s))) ELSE None

\* the position of the k-th newline of the text; 0 for k = 0
NewlineAt(text, k) ==
    IF k = 0 THEN 0
    ELSE CHOOSE p \in DOMAIN text :
            /\ text[p] = "\n"
            /\ Cardinality({ q \in 1 .. p : text[q] = "\n" }) = k

\* str::lines: the text cut at every newline, without a last empty piece
lines(text) ==
    LET n == Cardinality({ q \in DOMAIN text : text[q] = "\n" })
        rest == SubSeq(text, NewlineAt(text, n) + 1, Len(text))
    IN  [k \in 1 .. n |->
            SubSeq(text, NewlineAt(text, k - 1) + 1, NewlineAt(text, k) - 1)]
        \o (IF rest = <<>> THEN <<>> ELSE <<rest>>)

NoEntry ==
    [worktrees |-> <<>>, current_path |-> None, current_head |-> None,
     current_branch |-> None, current_prunable |-> None,
     current_locked |-> None, is_first |-> TRUE]

\* the entry in hand as a Worktree
current_worktree(acc) ==
    [path |-> Unwrap(acc.current_path), head |-> Unwrap(acc.current_head),
     branch |-> acc.current_branch, is_main |-> acc.is_first,
     prunable |-> acc.current_prunable, locked |-> acc.current_locked]

\* an end of entry after which the next checkout still counts as the first
end_of_entry_still_first(acc) ==
    IF acc.current_path # None /\ acc.current_head # None
    THEN [NoEntry EXCEPT
            !.worktrees = Append(acc.worktrees, current_worktree(acc))]
    ELSE [acc EXCEPT !.current_path = None, !.current_head = None]

\* an empty line: the end of the current entry
end_of_entry(acc) ==
    IF acc.current_path # None /\ acc.current_head # None
    THEN [NoEntry EXCEPT
            !.worktrees = Append(acc.worktrees, current_worktree(acc)),
            !.is_first = FALSE]
    ELSE [acc EXCEPT !.current_path = None, !.current_head = None]

\* a reader that knows no `prunable` or `locked` line without a reason
read_field_with_reason(acc, line) ==
    IF strip_prefix(line, <<"w", "o", "r", "k", "t", "r", "e", "e", " ">>) # None
    THEN [acc EXCEPT !.current_path = strip_prefix(line, <<"w", "o", "r", "k", "t", "r", "e", "e", " ">>)]
    ELSE IF strip_prefix(line, <<"H", "E", "A", "D", " ">>) # None
    THEN [acc EXCEPT !.current_head = strip_prefix(line, <<"H", "E", "A", "D", " ">>)]
    ELSE IF strip_prefix(line, <<"b", "r", "a", "n", "c", "h", " ">>) # None
    THEN LET branch_ref == Unwrap(strip_prefix(line, <<"b", "r", "a", "n", "c", "h", " ">>))
             short == strip_prefix(branch_ref, <<"r", "e", "f", "s", "/", "h", "e", "a", "d", "s", "/">>)
         IN  [acc EXCEPT !.current_branch =
                  IF short # None THEN short ELSE Some(branch_ref)]
    ELSE IF strip_prefix(line, <<"p", "r", "u", "n", "a", "b", "l", "e", " ">>) # None
    THEN [acc EXCEPT !.current_prunable = strip_prefix(line, <<"p", "r", "u", "n", "a", "b", "l", "e", " ">>)]
    ELSE IF strip_prefix(line, <<"l", "o", "c", "k", "e", "d", " ">>) # None
    THEN [acc EXCEPT !.current_locked = strip_prefix(line, <<"l", "o", "c", "k", "e", "d", " ">>)]
    ELSE acc

\* a line that is not empty: one field of the current entry
read_field(acc, line) ==
    IF strip_prefix(line, <<"w", "o", "r", "k", "t", "r", "e", "e", " ">>) # None
    THEN [acc EXCEPT !.current_path = strip_prefix(line, <<"w", "o", "r", "k", "t", "r", "e", "e", " ">>)]
    ELSE IF strip_prefix(line, <<"H", "E", "A", "D", " ">>) # None
    THEN [acc EXCEPT !.current_head = strip_prefix(line, <<"H", "E", "A", "D", " ">>)]
    ELSE IF strip_prefix(line, <<"b", "r", "a", "n", "c", "h", " ">>) # None
    THEN LET branch_ref == Unwrap(strip_prefix(line, <<"b", "r", "a", "n", "c", "h", " ">>))
             short == strip_prefix(branch_ref, <<"r", "e", "f", "s", "/", "h", "e", "a", "d", "s", "/">>)
         IN  [acc EXCEPT !.current_branch =
                  IF short # None THEN short ELSE Some(branch_ref)]
    ELSE IF strip_prefix(line, <<"p", "r", "u", "n", "a", "b", "l", "e", " ">>) # None
    THEN [acc EXCEPT !.current_prunable = strip_prefix(line, <<"p", "r", "u", "n", "a", "b", "l", "e", " ">>)]
    ELSE IF line = <<"p", "r", "u", "n", "a", "b", "l", "e">>
    THEN [acc EXCEPT !.current_prunable = Some(<<>>)]
    ELSE IF strip_prefix(line, <<"l", "o", "c", "k", "e", "d", " ">>) # None
    THEN [acc EXCEPT !.current_locked = strip_prefix(line, <<"l", "o", "c", "k", "e", "d", " ">>)]
    ELSE IF line = <<"l", "o", "c", "k", "e", "d">>
    THEN [acc EXCEPT !.current_locked = Some(<<>>)]
    ELSE acc

\* the loop over the lines
RECURSIVE parse_lines(_, _)
parse_lines(acc, ls) ==
    IF ls = <<>> THEN acc
    ELSE parse_lines(IF Head(ls) = <<>> THEN end_of_entry(acc)
                     ELSE read_field(acc, Head(ls)),
                     Tail(ls))

\* parse_porcelain_output
parse_porcelain_output(output) ==
    LET acc == parse_lines(NoEntry, lines(output))
    IN  IF acc.current_path # None /\ acc.current_head # None
        THEN Append(acc.worktrees, current_worktree(acc))
        ELSE acc.worktrees

\* what git writes for one checkout
LinkedPaths == << join(RoomsDir, <<"a">>), join(RoomsDir, <<"b">>),
                 join(RoomsDir, <<"c">>) >>
Reasons == {"none", "bare", "reason"}
MainBlocks ==
    [path : {PrimaryPath}, head : {"bare", "branch", "detached"},
     locked : {"none"}, prunable : {"none"}]
LinkedBlocks(i) ==
    [path : {LinkedPaths[i]}, head : {"branch", "detached"},
     locked : Reasons, prunable : Reasons]

RECURSIVE LinkedRuns(_)
LinkedRuns(n) ==
    IF n = 0 THEN { <<>> }
    ELSE LinkedRuns(n - 1) \cup
         { Append(run, b) : run \in { r \in LinkedRuns(n - 1) : Len(r) = n - 1 },
                            b \in LinkedBlocks(n) }

PorcelainListings ==
    { <<>> } \cup { <<m>> \o run : m \in MainBlocks, run \in LinkedRuns(MaxLinked) }

\* a block with the head "lost" has its branch line and no HEAD line, a
\* block with an empty path has no worktree line
block_text(b) ==
    (IF b.path = <<>> THEN <<>>
     ELSE <<"w", "o", "r", "k", "t", "r", "e", "e", " ">> \o b.path \o <<"\n">>)
    \o (IF b.head = "bare" THEN <<"b", "a", "r", "e">> \o <<"\n">>
        ELSE (IF b.head = "lost" THEN <<>>
              ELSE <<"H", "E", "A", "D", " ">> \o <<"h">> \o <<"\n">>)
             \o (IF b.head \in {"branch", "lost"}
                 THEN <<"b", "r", "a", "n", "c", "h", " ", "r", "e", "f", "s", "/", "h", "e", "a", "d", "s", "/">> \o <<"m">> \o <<"\n">>
                 ELSE <<"d", "e", "t", "a", "c", "h", "e", "d">> \o <<"\n">>))
    \o (IF b.locked = "bare" THEN <<"l", "o", "c", "k", "e", "d">> \o <<"\n">>
        ELSE IF b.locked = "reason" THEN <<"l", "o", "c", "k", "e", "d", " ", "w", "h", "y">> \o <<"\n">>
        ELSE <<>>)
    \o (IF b.prunable = "bare" THEN <<"p", "r", "u", "n", "a", "b", "l", "e">> \o <<"\n">>
        ELSE IF b.prunable = "reason" THEN <<"p", "r", "u", "n", "a", "b", "l", "e", " ", "g", "o", "n", "e">> \o <<"\n">>
        ELSE <<>>)

\* the blocks, each followed by an empty line
RECURSIVE listing_text(_)
listing_text(blocks) ==
    IF blocks = <<>> THEN <<>>
    ELSE block_text(Head(blocks)) \o <<"\n">> \o listing_text(Tail(blocks))

\* the text without its last `cut` characters, all of them newlines
Endings(text) ==
    { SubSeq(text, 1, Len(text) - cut) : cut \in 0 .. min(2, Len(text)) }

ParseCall(blocks, text) ==
    [op |-> "parse", pc |-> "called", blocks |-> blocks, output |-> text,
     value |-> <<>>, rooms |-> <<>>]

InitParse ==
    /\ disk = {RoomsDir, PrimaryPath}
    /\ worktrees = <<PrimaryWorktree>>
    /\ \E blocks \in PorcelainListings : \E text \in Endings(listing_text(blocks)) :
          outcome = ParseCall(blocks, text)
    /\ state = <<>>
    /\ now = 0
    /\ AppFresh

\* list_worktrees_from: the text of the backend, parsed
ParseListing ==
    /\ outcome.pc = "called"
    /\ outcome' = [outcome EXCEPT !.pc = "parsed",
                                  !.value = parse_porcelain_output(outcome.output)]
    /\ UNCHANGED <<disk, worktrees, now, state>>
    /\ UNCHANGED app_vars

\* RoomInfo::from of every parsed checkout
DeriveRooms ==
    /\ outcome.pc = "parsed"
    /\ outcome' = [outcome EXCEPT
                     !.pc = "derived",
                     !.rooms = [i \in DOMAIN outcome.value |->
                                   RoomInfo_from(outcome.value[i])]]
    /\ UNCHANGED <<disk, worktrees, now, state>>
    /\ UNCHANGED app_vars

NextParse == ParseListing \/ DeriveRooms

SpecParse == InitParse /\ [][NextParse]_vars

\* the blocks that make a record: the ones with a HEAD line
Recorded(blocks) == SelectSeq(blocks, LAMBDA b : b.head # "bare")

\* what a locked or prunable line of a block has to give
ReasonOf(kind, reason) ==
    IF kind = "none" THEN None
    ELSE IF kind = "bare" THEN Some(<<>>)
    ELSE Some(reason)

\* C26: a record whose prunable (or locked) line has no reason gets the field
\* present with an empty reason, a record with no such line gets the field
\* absent, the two differ, and a line with a reason gives that reason
C26_ReasonPresentOrAbsent ==
    (outcome.op = "parse" /\ outcome.pc # "called") =>
        /\ Len(outcome.value) = Len(Recorded(outcome.blocks))
        /\ \A i \in DOMAIN outcome.value :
             LET b == Recorded(outcome.blocks)[i]
                 wt == outcome.value[i]
             IN  /\ wt.prunable = ReasonOf(b.prunable, <<"g", "o", "n", "e">>)
                 /\ wt.locked = ReasonOf(b.locked, <<"w", "h", "y">>)
                 /\ b.prunable = "bare" => (wt.prunable # None /\ Unwrap(wt.prunable) = <<>>)
                 /\ b.prunable = "none" => wt.prunable = None
                 /\ b.locked = "bare" => (wt.locked # None /\ Unwrap(wt.locked) = <<>>)
                 /\ b.locked = "none" => wt.locked = None

\* a prunable line without a reason next to a checkout with no prunable line
C26_Witness ==
    /\ outcome.op = "parse"
    /\ outcome.pc = "parsed"
    /\ Len(outcome.value) = 3
    /\ outcome.value[1].prunable = None
    /\ outcome.value[2].prunable = Some(<<>>)
    /\ outcome.value[2].locked = Some(<<"w", "h", "y">>)
    /\ outcome.value[3].prunable = Some(<<"g", "o", "n", "e">>)
    /\ outcome.value[3].locked = None

\* C27: a room record made from a checkout is Orphaned exactly when the
\* listing marked the checkout prunable, with or without a reason, and Ready
\* otherwise, and its is_prunable flag is that same test
C27_OrphanedIffPrunable ==
    (outcome.op = "parse" /\ outcome.pc = "derived") =>
        /\ Len(outcome.rooms) = Len(outcome.value)
        /\ \A i \in DOMAIN outcome.rooms :
             LET marked == Recorded(outcome.blocks)[i].prunable # "none"
             IN  /\ marked <=> outcome.value[i].prunable # None
                 /\ outcome.rooms[i].is_prunable = marked
                 /\ outcome.rooms[i].status =
                      (IF marked THEN "Orphaned" ELSE "Ready")

C27_Witness ==
    /\ outcome.op = "parse"
    /\ outcome.pc = "derived"
    /\ Len(outcome.rooms) = 3
    /\ outcome.value[2].prunable = Some(<<>>)
    /\ outcome.rooms[2].status = "Orphaned"
    /\ outcome.rooms[2].is_prunable
    /\ outcome.rooms[3].status = "Ready"
    /\ ~outcome.rooms[3].is_prunable

\* C28: in every parsed list that is not empty the first record has is_main
\* set and no later record has, with or without a last blank line
C28_OnlyFirstIsMain ==
    (outcome.op = "parse" /\ outcome.pc # "called" /\ outcome.value # <<>>) =>
        /\ outcome.value[1].is_main
        /\ \A i \in DOMAIN outcome.value : i > 1 => ~outcome.value[i].is_main

\* three checkouts read from a text that ends after its last field
C28_Witness ==
    /\ outcome.op = "parse"
    /\ outcome.pc = "parsed"
    /\ Len(outcome.value) = 3
    /\ outcome.output[Len(outcome.output)] # "\n"
    /\ outcome.value[1].is_main
    /\ ~outcome.value[3].is_main

----------------------------------------------------------------------------
(* Discovery over checkouts written in every style (specification          *)
(* SpecDiscover).                                                          *)

MaxOverlay == 1

\* how the caller may write the rooms directory /r
RoomsDirSpellings == { <<"/","r">>, <<"/","r","/">>, <<"/","/","r">> }

\* the checkouts git may have registered besides the primary one: two
\* inside /r (one written with repeated and trailing separators), one in
\* another directory, one in a sibling directory whose name starts like /r
CheckoutPaths ==
    << <<"/","r","/","a">>, <<"/","r","/","/","b","/">>,
       <<"/","o","/","c">>, <<"/","r","2","/","d">> >>

OverlayNames == { <<"a">>, <<"b">> }
OverlayStatuses == {"Creating", "PostCreateRunning", "Deleting"}

\* the subsequence of s at the positions in keep
SubSeqAt(s, keep) == SelectSeq(s, LAMBDA x : \E i \in keep : s[i] = x)

InitDiscover ==
    \E keep \in SUBSET DOMAIN CheckoutPaths :
    \E gone \in SUBSET keep :
    \E dir \in RoomsDirSpellings :
        /\ worktrees = <<PrimaryWorktree>> \o
              [i \in 1..Cardinality(keep) |->
                 [path |-> SubSeqAt(CheckoutPaths, keep)[i],
                  branch |-> Some(<<"b">>), locked |-> None]]
        /\ \E present \in BOOLEAN :
              disk = { p \in {RoomsDir, PrimaryPath} \cup
                             {canonical(CheckoutPaths[i]) : i \in keep \ gone} :
                       present \/ ~path_starts_with(p, RoomsDir) }
        /\ now = 0
        /\ state = <<>>
        /\ outcome = NoOutcome
        /\ AppFreshIn(dir)

\* a step that is not a call of App: the fields of App stay as they are
AppUnchanged ==
    UNCHANGED <<rooms_dir, rooms, selected_index, focus, sidebar_visible,
                main_scene_visible, status_message, prompt, confirm, sessions,
                scrollback_offset, prev_scrollback_offset, last_size, pc,
                drain, spawned, faults>>

Step(kind, name, ok) == [kind |-> kind, name |-> name, ok |-> ok, calls |-> <<>>]

\* TransientStateStore::set_status
TransientSetStatus ==
    \E name \in OverlayNames, status \in OverlayStatuses :
        /\ Cardinality(DOMAIN transient \cup {name}) <= MaxOverlay
        /\ transient' = set_status(transient, name, status)
        /\ event' = Step("set_status", name, TRUE)
        /\ AppUnchanged
        /\ UNCHANGED env_vars
        /\ UNCHANGED lib_vars

\* TransientStateStore::set_error
TransientSetError ==
    \E name \in OverlayNames :
        /\ Cardinality(DOMAIN transient \cup {name}) <= MaxOverlay
        /\ transient' = set_error(transient, name, "boom")
        /\ event' = Step("set_error", name, TRUE)
        /\ AppUnchanged
        /\ UNCHANGED env_vars
        /\ UNCHANGED lib_vars

\* TransientStateStore::remove
TransientRemove ==
    \E name \in OverlayNames :
        /\ transient' = transient_remove(transient, name)
        /\ event' = Step("transient_remove", name, name \in DOMAIN transient)
        /\ AppUnchanged
        /\ UNCHANGED env_vars
        /\ UNCHANGED lib_vars

\* discover_rooms(repo_root, rooms_dir, transient): `rooms` takes the list
\* it returns
Discover ==
    \E ls \in {"ok", "fail"} :
    \E r \in { discover_rooms(disk, worktrees, rooms_dir, transient, ls) } :
        /\ rooms' = r.rooms
        /\ event' = [kind |-> "discover", name |-> <<>>, ok |-> r.ok,
                      calls |-> IF r.listed THEN <<"worktree list">> ELSE <<>>,
                      err |-> r.err, path |-> r.path]
        /\ UNCHANGED <<rooms_dir, transient, selected_index, focus,
                       sidebar_visible, main_scene_visible, status_message,
                       prompt, confirm, sessions, scrollback_offset,
                       prev_scrollback_offset, last_size, pc, drain, spawned, faults>>
        /\ UNCHANGED env_vars
        /\ UNCHANGED lib_vars

NextDiscover ==
    TransientSetStatus \/ TransientSetError \/ TransientRemove \/ Discover

SpecDiscover == InitDiscover /\ [][NextDiscover]_vars

\* the checkout of the registry that a returned record was made from
CheckoutOf(info) ==
    CHOOSE i \in DOMAIN worktrees : worktrees[i].path = info.path

\* the status discovery derives from the checkout alone
DerivedStatus(info) ==
    IF canonical(info.path) \in disk THEN "Ready" ELSE "Orphaned"

\* C2: every record discover_rooms returns for a name that has an overlay
\* entry carries exactly that entry's status and last_error; every other
\* record carries the status derived from its checkout and no last_error.
C2_OverlayWins ==
    (event.kind = "discover" /\ event.ok) =>
        \A i \in DOMAIN rooms :
            IF rooms[i].name \in DOMAIN transient
            THEN /\ rooms[i].status = transient[rooms[i].name].status
                 /\ rooms[i].last_error = transient[rooms[i].name].last_error
            ELSE /\ rooms[i].status = DerivedStatus(rooms[i])
                 /\ rooms[i].last_error = None

\* a discovery returned a present checkout under an overlay entry in Error
\* with its message, and a record without overlay entry beside it
C2_Witness ==
    /\ event.kind = "discover" /\ event.ok
    /\ \E i, j \in DOMAIN rooms :
          /\ rooms[i].name \in DOMAIN transient
          /\ DerivedStatus(rooms[i]) = "Ready"
          /\ rooms[i].status = "Error"
          /\ rooms[i].last_error = Some("boom")
          /\ rooms[j].name \notin DOMAIN transient
          /\ rooms[j].status = "Orphaned"

\* a checkout lies inside dir when dir's components are a prefix of its own
Inside(path, dir) == path_starts_with(canonical(path), canonical(dir))

\* C35: a checkout whose path cannot be canonicalized is kept as a room only
\* if its normalized path lies below rooms_dir by whole components; one
\* that only has the text of rooms_dir as a prefix is left out
C35_FallbackByComponents ==
    (event.kind = "discover" /\ event.ok) =>
        \A i \in DOMAIN rooms :
            canonicalize(disk, rooms[i].path) = None =>
                path_starts_with(normalize_path_string(rooms[i].path),
                                 normalize_path_string(canonical(rooms_dir)))

\* C29: when rooms_dir is not a directory on disk, discover_rooms returns
\* InvalidRoomsDir with the path it was given, and has run no backend command
C29_InvalidRoomsDirFirst ==
    (event.kind = "discover" /\ canonical(rooms_dir) \notin disk) =>
        /\ ~event.ok
        /\ event.err = "InvalidRoomsDir"
        /\ event.path = rooms_dir
        /\ event.calls = <<>>

\* checkouts are registered, yet none was listed
C29_Witness ==
    /\ event.kind = "discover"
    /\ event.err = "InvalidRoomsDir"
    /\ event.calls = <<>>
    /\ RoomsDir \notin disk
    /\ Len(worktrees) > 2
    /\ rooms = <<>>

\* C3: discover_rooms returns exactly the non-primary checkouts located
\* inside the rooms directory, however the paths are written.
C3_ExactlyInside ==
    (event.kind = "discover" /\ event.ok) =>
        {rooms[i].path : i \in DOMAIN rooms} =
            {worktrees[i].path : i \in {k \in DOMAIN worktrees :
                                          k > 1 /\ Inside(worktrees[k].path, rooms_dir)}}

----------------------------------------------------------------------------
(* The control loop of App over rooms and sessions (specification SpecApp). *)

\* the sizes the user's terminal takes: one while rooms come and go, two
\* while the sessions run
AppSizes == { <<60, 20>> }
TermSizes == { <<60, 20>>, <<100, 30>> }

\* the keys the user presses
SidebarKeys == {"j", "k", "Enter", "a", "A", "d", "D", "r", "R"}
MainSceneKeys == {"x", "Ctrl+b"}
ConfirmKeys == {"Esc", "Enter", "Tab", "y"}
PromptKeys == {"Esc", "Enter"}
\* what the text input of a prompt holds when Enter arrives (the branch
\* name is left empty)
PromptValues == { <<>>, <<"A"," ","b">>, <<"a","-","b">> }

\* the fields of App and the environment, as one record
World ==
    [rooms |-> rooms, transient |-> transient, selected_index |-> selected_index,
     focus |-> focus, sidebar_visible |-> sidebar_visible,
     main_scene_visible |-> main_scene_visible,
     status_message |-> status_message, prompt |-> prompt, confirm |-> confirm,
     sessions |-> sessions, scrollback_offset |-> scrollback_offset,
     prev_scrollback_offset |-> prev_scrollback_offset, last_size |-> last_size,
     spawned |-> spawned, faults |-> faults, disk |-> disk, worktrees |-> worktrees,
     calls |-> <<>>, ret |-> FALSE, kind |-> "none", name |-> <<>>, ok |-> FALSE]

\* the step leaves the fields as w has them
Commit(w) ==
    /\ rooms' = w.rooms
    /\ transient' = w.transient
    /\ selected_index' = w.selected_index
    /\ focus' = w.focus
    /\ sidebar_visible' = w.sidebar_visible
    /\ main_scene_visible' = w.main_scene_visible
    /\ status_message' = w.status_message
    /\ prompt' = w.prompt
    /\ confirm' = w.confirm
    /\ sessions' = w.sessions
    /\ scrollback_offset' = w.scrollback_offset
    /\ prev_scrollback_offset' = w.prev_scrollback_offset
    /\ last_size' = w.last_size
    /\ spawned' = w.spawned
    /\ faults' = w.faults
    /\ disk' = w.disk
    /\ worktrees' = w.worktrees
    /\ event' = [kind |-> w.kind, name |-> w.name, ok |-> w.ok, calls |-> w.calls]
    /\ UNCHANGED <<now, rooms_dir, drain>>
    /\ UNCHANGED lib_vars

\* the checkouts registered when the program starts: none, a room a-b, and
\* a room old whose directory was deleted
InitCheckouts ==
    { <<>>,
      << [path |-> join(RoomsDir, <<"a","-","b">>), present |-> TRUE] >>,
      << [path |-> join(RoomsDir, <<"a","-","b">>), present |-> TRUE],
         [path |-> join(RoomsDir, <<"o","l","d">>), present |-> FALSE] >> }

\* App::new: the first discovery, then sort_rooms_for_sidebar
InitApp ==
    \E cs \in InitCheckouts, ls \in ListResults :
    \E dsk \in { {RoomsDir, PrimaryPath} \cup
                 {cs[i].path : i \in {k \in DOMAIN cs : cs[k].present}} } :
    \E wts \in { <<PrimaryWorktree>> \o
                 [i \in DOMAIN cs |->
                    [path |-> cs[i].path, branch |-> Some(<<"b">>),
                     locked |-> None]] } :
        /\ disk = dsk
        /\ worktrees = wts
        /\ now = 0
        /\ state = <<>>
        /\ outcome = NoOutcome
        /\ rooms_dir = RoomsDir
        /\ rooms = sort_by(discover_rooms(dsk, wts, RoomsDir, <<>>, ls).rooms,
                           dsk, {})
        /\ transient = <<>>
        /\ selected_index = 0
        /\ focus = "Sidebar"
        /\ sidebar_visible = TRUE
        /\ main_scene_visible = TRUE
        /\ status_message = None
        /\ prompt = NoPrompt
        /\ confirm = NoConfirm
        /\ sessions = <<>>
        /\ scrollback_offset = 0
        /\ prev_scrollback_offset = 0
        /\ last_size = <<0, 0>>
        /\ pc = "frame"
        /\ drain = <<>>
        /\ spawned = 0
        /\ faults = 0
        /\ event = NoEvent

\* main_loop, from the top to the poll for input
Frame(sizes) ==
    /\ pc = "frame"
    /\ \E size \in sizes :
         Commit(main_loop_frame(
                  [World EXCEPT !.sessions =
                      [n \in DOMAIN sessions |-> process_output(sessions[n])]],
                  size))
    /\ pc' = "input"

\* event::poll times out: no input in this iteration
PollTimeout ==
    /\ pc = "input"
    /\ pc' = "frame"
    /\ event' = NoEvent
    /\ UNCHANGED <<rooms_dir, rooms, transient, selected_index, focus,
                   sidebar_visible, main_scene_visible, status_message, prompt,
                   confirm, sessions, scrollback_offset, prev_scrollback_offset,
                   last_size, drain, spawned, faults>>
    /\ UNCHANGED env_vars
    /\ UNCHANGED lib_vars

\* a key arrives while the confirmation dialog is open
KeyConfirm ==
    /\ pc = "input" /\ confirm.kind # "None"
    /\ \E key \in ConfirmKeys : \E w \in handle_key(World, key, <<>>) : Commit(w)
    /\ pc' = "frame"

\* a key arrives while a prompt is open
KeyPrompt ==
    /\ pc = "input" /\ confirm.kind = "None" /\ prompt.kind # "None"
    /\ \E key \in PromptKeys :
       \E value \in IF key = "Enter" /\ prompt.kind # "BranchName"
                     THEN PromptValues ELSE { <<>> } :
       \E w \in handle_key(World, key, value) : Commit(w)
    /\ pc' = "frame"

\* a key arrives while the terminal has the focus
KeyMainScene ==
    /\ pc = "input" /\ confirm.kind = "None" /\ prompt.kind = "None"
    /\ focus = "MainScene"
    /\ \E key \in MainSceneKeys : \E w \in handle_key(World, key, <<>>) : Commit(w)
    /\ pc' = "frame"

\* a key arrives while the sidebar has the focus
KeySidebar ==
    /\ pc = "input" /\ confirm.kind = "None" /\ prompt.kind = "None"
    /\ focus = "Sidebar"
    /\ \E key \in SidebarKeys : \E w \in handle_key(World, key, <<>>) : Commit(w)
    /\ pc' = "frame"

\* the reader thread of a session sees end-of-stream or a read error and
\* ends: the session is terminated
ReaderExit ==
    \E n \in DOMAIN sessions :
        /\ sessions[n].reader = "reading"
        /\ faults < MaxFaults
        /\ faults' = faults + 1
        /\ sessions' = [sessions EXCEPT ![n].reader = "done"]
        /\ event' = NoEvent
        /\ UNCHANGED <<rooms_dir, rooms, transient, selected_index, focus,
                       sidebar_visible, main_scene_visible, status_message,
                       prompt, confirm, scrollback_offset,
                       prev_scrollback_offset, last_size, pc, drain, spawned>>
        /\ UNCHANGED env_vars
        /\ UNCHANGED lib_vars

\* the overlay gets an entry for the selected room: TransientStateStore::
\* set_status or ::set_error
SetOverlay ==
    /\ pc = "input"
    /\ \E i \in DOMAIN rooms \cap {selected_index + 1} :
       \E store \in { set_status(transient, rooms[i].name, "Deleting"),
                      set_error(transient, rooms[i].name, "boom") } :
          /\ Cardinality(DOMAIN store) <= MaxOverlay
          /\ transient' = store
          /\ event' = NoEvent
    /\ faults < MaxFaults
    /\ faults' = faults + 1
    /\ pc' = "frame"
    /\ UNCHANGED <<rooms_dir, rooms, selected_index, focus, sidebar_visible,
                   main_scene_visible, status_message, prompt, confirm,
                   sessions, scrollback_offset, prev_scrollback_offset,
                   last_size, drain, spawned>>
    /\ UNCHANGED env_vars
    /\ UNCHANGED lib_vars

NextApp ==
    \/ Frame(AppSizes) \/ PollTimeout \/ KeyConfirm \/ KeyPrompt \/ KeyMainScene
    \/ KeySidebar \/ ReaderExit \/ SetOverlay

SpecApp == InitApp /\ [][NextApp]_vars

----------------------------------------------------------------------------
(* SpecInput: the TextInput of a prompt (ui/prompt.rs) under the keys      *)
(* handle_prompt_key hands to it.  A String is the sequence of its chars,  *)
(* each as long as its UTF-8 encoding; indexes into it count bytes, as     *)
(* value.len(), String::insert and String::remove do.  `outcome` holds the *)
(* TextInput, the operation last called and whether it panicked.           *)

\* most chars the input holds
MaxChars == 3

\* the chars typed: one of one byte, one of two
TypedChars == {"a", "\\u00e9"}

\* char::len_utf8
len_utf8(c) == IF c = "a" THEN 1 ELSE 2

\* str::len: the bytes of the string
RECURSIVE str_len(_)
str_len(value) ==
    IF value = <<>> THEN 0 ELSE len_utf8(Head(value)) + str_len(Tail(value))

\* str::is_char_boundary
is_char_boundary(value, idx) ==
    \E n \in 0 .. Len(value) : str_len(SubSeq(value, 1, n)) = idx

\* the chars that end at or before byte idx
chars_before(value, idx) ==
    Cardinality({ n \in 1 .. Len(value) : str_len(SubSeq(value, 1, n)) <= idx })

\* String::insert(idx, ch): panics unless idx is a char boundary
String_insert(value, idx, ch) ==
    IF ~is_char_boundary(value, idx) THEN [panic |-> TRUE, value |-> value]
    ELSE [panic |-> FALSE,
          value |-> SubSeq(value, 1, chars_before(value, idx)) \o <<ch>>
                    \o SubSeq(value, chars_before(value, idx) + 1, Len(value))]

\* String::remove(idx): panics unless idx is a char boundary before the end
String_remove(value, idx) ==
    IF ~is_char_boundary(value, idx) \/ idx >= str_len(value)
    THEN [panic |-> TRUE, value |-> value]
    ELSE [panic |-> FALSE,
          value |-> SubSeq(value, 1, chars_before(value, idx))
                    \o SubSeq(value, chars_before(value, idx) + 2, Len(value))]

\* TextInput::new and PromptState::start_room_rename(current_name)
TextInput_new == [value |-> <<>>, cursor |-> 0]
start_room_rename_input(current_name) ==
    [value |-> current_name, cursor |-> str_len(current_name)]

\* TextInput::insert
TextInput_insert(t, c) ==
    LET r == String_insert(t.value, t.cursor, c)
    IN  [panic |-> r.panic,
         input |-> IF r.panic THEN t
                   ELSE [value |-> r.value, cursor |-> t.cursor + 1]]

\* TextInput::backspace
TextInput_backspace(t) ==
    LET r == String_remove(t.value, t.cursor - 1)
    IN  IF t.cursor > 0
        THEN [panic |-> r.panic,
              input |-> [value |-> r.value, cursor |-> t.cursor - 1]]
        ELSE [panic |-> FALSE, input |-> t]

\* TextInput::delete
TextInput_delete(t) ==
    LET r == String_remove(t.value, t.cursor)
    IN  IF t.cursor < str_len(t.value)
        THEN [panic |-> r.panic, input |-> [t EXCEPT !.value = r.value]]
        ELSE [panic |-> FALSE, input |-> t]

\* TextInput::move_left, move_right, move_start, move_end
TextInput_move_left(t) == [t EXCEPT !.cursor = max(@ - 1, 0)]
TextInput_move_right(t) ==
    IF t.cursor < str_len(t.value) THEN [t EXCEPT !.cursor = @ + 1] ELSE t
TextInput_move_start(t) == [t EXCEPT !.cursor = 0]
TextInput_move_end(t) == [t EXCEPT !.cursor = str_len(t.value)]

InputCall(t) == [op |-> "new", input |-> t, panic |-> FALSE]

InitInput ==
    /\ disk = {RoomsDir, PrimaryPath}
    /\ worktrees = <<PrimaryWorktree>>
    /\ \E t \in { TextInput_new, start_room_rename_input(<<"a", "a">>) } :
          outcome = InputCall(t)
    /\ state = <<>>
    /\ now = 0
    /\ AppFresh

\* the operation leaves the input as r has it, or has panicked
Edited(op, r) ==
    /\ outcome' = [op |-> op, input |-> r.input, panic |-> r.panic]
    /\ UNCHANGED <<disk, worktrees, now, state>>
    /\ UNCHANGED app_vars

\* KeyCode::Char(c)
Insert ==
    /\ ~outcome.panic /\ Len(outcome.input.value) < MaxChars
    /\ \E c \in TypedChars : Edited("insert", TextInput_insert(outcome.input, c))

\* KeyCode::Backspace
Backspace ==
    /\ ~outcome.panic
    /\ Edited("backspace", TextInput_backspace(outcome.input))

\* KeyCode::Delete
Delete ==
    /\ ~outcome.panic
    /\ Edited("delete", TextInput_delete(outcome.input))

\* KeyCode::Left
MoveLeft ==
    /\ ~outcome.panic
    /\ Edited("move_left", [panic |-> FALSE,
                            input |-> TextInput_move_left(outcome.input)])

\* KeyCode::Right
MoveRight ==
    /\ ~outcome.panic
    /\ Edited("move_right", [panic |-> FALSE,
                             input |-> TextInput_move_right(outcome.input)])

\* KeyCode::Home
MoveStart ==
    /\ ~outcome.panic
    /\ Edited("move_start", [panic |-> FALSE,
                             input |-> TextInput_move_start(outcome.input)])

\* KeyCode::End
MoveEnd ==
    /\ ~outcome.panic
    /\ Edited("move_end", [panic |-> FALSE,
                           input |-> TextInput_move_end(outcome.input)])

NextInput ==
    \/ Insert \/ Backspace \/ Delete \/ MoveLeft \/ MoveRight \/ MoveStart
    \/ MoveEnd

SpecInput == InitInput /\ [][NextInput]_vars

\* C40: after every sequence of TextInput operations the cursor is a char
\* boundary of value between 0 and the length of value, and no operation
\* has panicked
C40_CursorOnCharBoundary ==
    /\ ~outcome.panic
    /\ outcome.input.cursor >= 0
    /\ outcome.input.cursor <= str_len(outcome.input.value)
    /\ is_char_boundary(outcome.input.value, outcome.input.cursor)

----------------------------------------------------------------------------
(* SpecDamaged: parse_porcelain_output on listings with damaged blocks: a  *)
(* block may have lost its worktree line or its HEAD line and still have   *)
(* its branch, locked and prunable lines.                                  *)

\* most blocks in a damaged listing
MaxBlocks == 2

DamagedBlocks(i) ==
    [path : {LinkedPaths[i], <<>>}, head : {"branch", "detached", "lost"},
     locked : Reasons, prunable : Reasons]

RECURSIVE DamagedRuns(_)
DamagedRuns(n) ==
    IF n = 0 THEN { <<>> }
    ELSE DamagedRuns(n - 1) \cup
         { Append(run, b) : run \in { r \in DamagedRuns(n - 1) : Len(r) = n - 1 },
                            b \in DamagedBlocks(n) }

InitDamaged ==
    /\ disk = {RoomsDir, PrimaryPath}
    /\ worktrees = <<PrimaryWorktree>>
    /\ \E blocks \in DamagedRuns(MaxBlocks) :
       \E text \in Endings(listing_text(blocks)) :
          outcome = ParseCall(blocks, text)
    /\ state = <<>>
    /\ now = 0
    /\ AppFresh

SpecDamaged == InitDamaged /\ [][NextParse]_vars

\* the blocks that make a record: the ones with a worktree and a HEAD line
Complete(blocks) ==
    SelectSeq(blocks, LAMBDA b : b.path # <<>> /\ b.head \notin {"bare", "lost"})

\* C38: the branch, prunable and locked values of every parsed record are
\* the ones the lines of its own block give, whatever the blocks before it
\* held, skipped or not
C38_FieldsFromOwnBlock ==
    (outcome.op = "parse" /\ outcome.pc # "called") =>
        /\ Len(outcome.value) = Len(Complete(outcome.blocks))
        /\ \A i \in DOMAIN outcome.value :
             LET b == Complete(outcome.blocks)[i]
                 wt == outcome.value[i]
             IN  /\ wt.path = b.path
                 /\ wt.branch = (IF b.head = "branch" THEN Some(<<"m">>) ELSE None)
                 /\ wt.prunable = ReasonOf(b.prunable, <<"g", "o", "n", "e">>)
                 /\ wt.locked = ReasonOf(b.locked, <<"w", "h", "y">>)

----------------------------------------------------------------------------
(* SpecScroll: the control loop of an App that starts with two rooms, with *)
(* the keys that open a room, move the selection, type and scroll.         *)

\* the keys that scroll the terminal of the selected room
ScrollKeys == {"PageUp", "PageDown"}
\* the offset beyond which no further PageUp is pressed
MaxOffset == 20
\* the keys that move the selection and open the selected room
SelectKeys == {"j", "k", "Enter"}

\* the checkouts registered when the program starts: rooms a-b and c
ScrollCheckouts ==
    << [path |-> join(RoomsDir, <<"a","-","b">>), branch |-> Some(<<"b">>),
        locked |-> None],
       [path |-> join(RoomsDir, <<"c">>), branch |-> Some(<<"c">>),
        locked |-> None] >>

\* App::new with two rooms on disk
InitScroll ==
    \E ls \in ListResults :
        /\ disk = {RoomsDir, PrimaryPath} \cup
                  {ScrollCheckouts[i].path : i \in DOMAIN ScrollCheckouts}
        /\ worktrees = <<PrimaryWorktree>> \o ScrollCheckouts
        /\ now = 0
        /\ state = <<>>
        /\ outcome = NoOutcome
        /\ rooms = sort_by(discover_rooms(disk, worktrees, RoomsDir, <<>>,
                                          ls).rooms, disk, {})
        /\ rooms_dir = RoomsDir
        /\ transient = <<>>
        /\ selected_index = 0
        /\ focus = "Sidebar"
        /\ sidebar_visible = TRUE
        /\ main_scene_visible = TRUE
        /\ status_message = None
        /\ prompt = NoPrompt
        /\ confirm = NoConfirm
        /\ sessions = <<>>
        /\ scrollback_offset = 0
        /\ prev_scrollback_offset = 0
        /\ last_size = <<0, 0>>
        /\ pc = "frame"
        /\ drain = <<>>
        /\ spawned = 0
        /\ faults = 0
        /\ event = NoEvent

\* PageUp or PageDown arrives while the terminal has the focus
KeyScroll ==
    /\ pc = "input" /\ confirm.kind = "None" /\ prompt.kind = "None"
    /\ focus = "MainScene"
    /\ \E key \in ScrollKeys :
         /\ key = "PageUp" => scrollback_offset <= MaxOffset
         /\ \E w \in handle_key(World, key, <<>>) : Commit(w)
    /\ pc' = "frame"

\* j, k or Enter arrives while the sidebar has the focus
KeySelect ==
    /\ pc = "input" /\ confirm.kind = "None" /\ prompt.kind = "None"
    /\ focus = "Sidebar"
    /\ \E key \in SelectKeys : \E w \in handle_key(World, key, <<>>) : Commit(w)
    /\ pc' = "frame"

NextScroll ==
    \/ Frame(AppSizes) \/ PollTimeout \/ KeyScroll \/ KeyMainScene \/ KeySelect

SpecScroll == InitScroll /\ [][NextScroll]_vars

\* C36: when the loop has applied the scrollback offset and drawn, the
\* offset last applied to the screen of the selected room's session is the
\* app's scrollback_offset
C36_ScreenShowsAppOffset ==
    (pc = "input" /\ current_session(World) # None)
        => sessions[Unwrap(current_session(World))].scrollback
               = scrollback_offset

----------------------------------------------------------------------------
(* SpecPty: two sessions, their reader threads and the control loop, the  *)
(* drain at the top of main_loop taken one try_recv at a time.             *)

\* most chunks the reader of a session reads in a run
MaxChunks == 2

\* what the child of the session with this id prints, as the chunks its
\* reader gets: they start with the digit of the id, so that the output of
\* one session differs from the output of another
Chunks(id) == { <<DigitChars[id + 1]>>, <<DigitChars[id + 1], "\n">> }

\* the orders in which HashMap::values_mut can visit the sessions
Orders(names) ==
    { o \in [1..Cardinality(names) -> names] : Range(o) = names }

\* the two rooms the silent creation makes first
FirstRoom == CHOOSE n \in generate_unique_room_name({}, 0) : TRUE
SecondRoom == CHOOSE n \in generate_unique_room_name({FirstRoom}, 0) : TRUE
PtyRooms == <<FirstRoom, SecondRoom>>

\* the registry after the two creations
PtyWorktrees ==
    <<PrimaryWorktree>> \o
    [i \in DOMAIN PtyRooms |->
        [path |-> join(RoomsDir, PtyRooms[i]), branch |-> Some(PtyRooms[i]),
         locked |-> None]]
PtyDisk ==
    {RoomsDir, PrimaryPath} \cup {join(RoomsDir, PtyRooms[i]) : i \in DOMAIN PtyRooms}

\* the size of the sessions spawned in a terminal of the size of AppSizes
PtyGeometry ==
    calculate_pty_size([last_size |-> CHOOSE size \in AppSizes : TRUE,
                        sidebar_visible |-> TRUE, main_scene_visible |-> TRUE])

\* the program after 'A', Ctrl+b, 'A' and an iteration without input in a
\* repository without rooms: two rooms, each with a session
InitPty ==
    /\ disk = PtyDisk
    /\ worktrees = PtyWorktrees
    /\ now = 0
    /\ state = <<>>
    /\ outcome = NoOutcome
    /\ rooms_dir = RoomsDir
    /\ rooms = sort_by(discover_rooms(PtyDisk, PtyWorktrees, RoomsDir, <<>>,
                                      "ok").rooms,
                       PtyDisk, Range(PtyRooms))
    /\ transient = <<>>
    /\ selected_index = Unwrap(position(rooms, SecondRoom))
    /\ focus = "MainScene"
    /\ sidebar_visible = TRUE
    /\ main_scene_visible = TRUE
    /\ status_message = Some("Created room")
    /\ prompt = NoPrompt
    /\ confirm = NoConfirm
    /\ sessions = [n \in Range(PtyRooms) |->
                      PtySession_new(PtyGeometry[1], PtyGeometry[2],
                                     join(RoomsDir, n),
                                     CHOOSE i \in DOMAIN PtyRooms : PtyRooms[i] = n)]
    /\ scrollback_offset = 0
    /\ prev_scrollback_offset = 0
    /\ last_size = CHOOSE size \in AppSizes : TRUE
    /\ pc = "frame"
    /\ drain = <<>>
    /\ spawned = Len(PtyRooms)
    /\ faults = 0
    /\ event = NoEvent

\* what the steps of the drain and of the reader threads leave alone
PtyUnchanged ==
    /\ UNCHANGED <<rooms_dir, rooms, transient, selected_index, focus,
                   sidebar_visible, main_scene_visible, status_message, prompt,
                   confirm, scrollback_offset, prev_scrollback_offset,
                   last_size, spawned>>
    /\ UNCHANGED env_vars
    /\ UNCHANGED lib_vars

\* main_loop: `for session in self.sessions.values_mut()` starts
DrainStart ==
    /\ pc = "frame"
    /\ pc' = "drain"
    /\ drain' \in Orders(DOMAIN sessions)
    /\ event' = NoEvent
    /\ UNCHANGED <<sessions, faults>>
    /\ PtyUnchanged

\* PtySession::process_output of the session the drain is at: one try_recv,
\* the chunk to the parser, or on to the next session when the channel is
\* empty
TryRecv ==
    /\ pc = "drain" /\ drain # <<>>
    /\ IF sessions[Head(drain)].queue # <<>>
       THEN /\ sessions' = [sessions EXCEPT ![Head(drain)] = parser_process(@)]
            /\ drain' = drain
       ELSE /\ sessions' = sessions
            /\ drain' = Tail(drain)
    /\ event' = NoEvent
    /\ UNCHANGED <<pc, faults>>
    /\ PtyUnchanged

\* main_loop after the drain, up to the poll for input
FrameAfterDrain(sizes) ==
    /\ pc = "drain" /\ drain = <<>>
    /\ \E size \in sizes : Commit(main_loop_frame(World, size))
    /\ pc' = "input"

\* the reader thread of a session reads a chunk
ReaderRead ==
    \E n \in DOMAIN sessions : \E data \in Chunks(sessions[n].id) :
        /\ sessions[n].reader = "reading"
        /\ Len(sessions[n].read) < MaxChunks
        /\ sessions' = [sessions EXCEPT ![n] = reader_read(@, data)]
        /\ event' = NoEvent
        /\ UNCHANGED <<pc, drain, faults>>
        /\ PtyUnchanged

\* the reader thread of a session sends the chunk it holds
ReaderSend ==
    \E n \in DOMAIN sessions :
        /\ sessions[n].reader = "sending"
        /\ sessions' = [sessions EXCEPT ![n] = reader_send(@)]
        /\ event' = NoEvent
        /\ UNCHANGED <<pc, drain, faults>>
        /\ PtyUnchanged

NextPty ==
    \/ DrainStart \/ TryRecv \/ FrameAfterDrain(TermSizes) \/ PollTimeout
    \/ ReaderRead \/ ReaderSend \/ ReaderExit

SpecPty == InitPty /\ [][NextPty]_vars

----------------------------------------------------------------------------
(* What holds of the control loop.                                         *)

\* the calls of kind call in the calls of the last step
CallsOf(calls, call) ==
    { i \in DOMAIN calls : calls[i].call = call }

\* the last step was a creation, a rename, ... that succeeded
Succeeded(kinds) == event.kind \in kinds /\ event.ok

CreateHookLines == << <<"c", "\n">>, <<"e", "\n">> >>

\* the calls of a step from the k-th on are the hook lines of a creation,
\* written to the session of room name
HooksWritten(calls, k, name) ==
    /\ Len(calls) = k - 1 + Len(CreateHookLines)
    /\ \A i \in DOMAIN CreateHookLines :
          /\ calls[k - 1 + i].call = "write"
          /\ calls[k - 1 + i].name = name
          /\ calls[k - 1 + i].arg = CreateHookLines[i]

C6_EnterDropsTerminated ==
    Succeeded({"enter"}) => sessions[event.name].reader # "done"

\* C7: distinct names hold distinct sessions; a session appears in the map
\* only in a step that enters its room (an enter, or the enter a creation
\* makes) and spawns it; no entry is ever replaced; entering a room that
\* has a session spawns nothing and hands back the session it has
C7_SessionsOnlyByEntering ==
    [][ /\ \A n \in DOMAIN sessions' :
              (n \notin DOMAIN sessions \/ sessions'[n].id # sessions[n].id) =>
                 /\ n \notin DOMAIN sessions
                 /\ event'.kind \in {"enter", "create"}
                 /\ event'.name = n
                 /\ \E i \in CallsOf(event'.calls, "spawn") :
                       event'.calls[i].name = n /\ event'.calls[i].ok
        /\ (event'.kind = "enter" /\ event'.name \in DOMAIN sessions) =>
              /\ event'.ok
              /\ CallsOf(event'.calls, "spawn") = {}
              /\ spawned' = spawned
              /\ event'.name \in DOMAIN sessions'
              /\ sessions'[event'.name].id = sessions[event'.name].id
        /\ \A n, m \in DOMAIN sessions' :
              n # m => sessions'[n].id # sessions'[m].id
      ]_vars

\* a room that had a session was entered and no child was spawned
C7_Witness ==
    /\ Succeeded({"enter"})
    /\ CallsOf(event.calls, "spawn") = {}
    /\ event.name \in DOMAIN sessions
    /\ Cardinality(DOMAIN sessions) = MaxSpawns

\* C8 as the specification states it: a resize to the geometry a session
\* has makes no call on the terminal or the parser; a resize to another
\* geometry gives both the terminal and the parser grid the new size
C8_ResizeUnchangedIsNoop ==
    event.kind = "frame" =>
        \A n \in DOMAIN event.calls :
            IF event.calls[n].from = event.calls[n].to
            THEN event.calls[n].calls = <<>>
            ELSE /\ sessions[n].pty_size = event.calls[n].to
                 /\ sessions[n].parser_size = event.calls[n].to

\* C9: whatever the reader threads and the control loop have done so far,
\* the chunks the parser of a session got are the first of the chunks its
\* reader read, in their order, the rest being in the channel or with the
\* reader, and none of them is a chunk of another session
C9_FedIsPrefixOfRead ==
    \A n \in DOMAIN sessions :
        LET s == sessions[n]
        IN  /\ Len(s.fed) <= Len(s.read)
            /\ s.fed = SubSeq(s.read, 1, Len(s.fed))
            /\ s.read = s.fed \o s.queue \o
                           (IF s.reader = "sending" THEN <<s.buf>> ELSE <<>>)
            /\ \A i \in DOMAIN s.fed : s.fed[i] \in Chunks(s.id)
            /\ \A m \in DOMAIN sessions \ {n} : \A i \in DOMAIN s.fed :
                  s.fed[i] \notin Chunks(sessions[m].id)

\* the parser of one session got two different chunks while another
\* session had a chunk with its parser and one in its channel
C9_Witness ==
    \E n, m \in DOMAIN sessions :
        /\ n # m
        /\ Len(sessions[n].fed) >= 2
        /\ sessions[n].fed[1] # sessions[n].fed[2]
        /\ sessions[m].fed # <<>>
        /\ sessions[m].queue # <<>>

\* C10: a write that fails leaves its session in the map; when it is a
\* keystroke's write, the message says so and the sessions, the rooms and
\* the overlay stay as they were; when it is a hook's write, the hook
\* lines after it are still written and no other session changes; a
\* keystroke for a room with a session is always written
C10_FailedWriteIsLocal ==
    [][ /\ event'.kind \in {"write", "enter", "create"} =>
              \A i \in CallsOf(event'.calls, "write") :
                  ~event'.calls[i].ok =>
                      /\ event'.calls[i].name \in DOMAIN sessions'
                      /\ \A n \in (DOMAIN sessions \cap DOMAIN sessions') :
                            sessions'[n] = sessions[n]
                      /\ i < Len(event'.calls) =>
                            /\ event'.calls[i + 1].call = "write"
                            /\ event'.calls[i + 1].name = event'.calls[i].name
                      /\ event'.kind = "write" =>
                            /\ status_message' = Some("Write error")
                            /\ sessions' = sessions
                            /\ rooms' = rooms
                            /\ transient' = transient
        /\ (event'.kind = "write" /\ event'.ok) =>
              /\ Len(event'.calls) = 1
              /\ event'.calls[1].call = "write"
              /\ event'.calls[1].name = event'.name
      ]_vars

\* a keystroke's write failed while another room had a session too
C10_Witness ==
    /\ event.kind = "write"
    /\ event.calls # <<>>
    /\ ~event.calls[1].ok
    /\ event.name \in DOMAIN sessions
    /\ Cardinality(DOMAIN sessions) = MaxSpawns

\* a keystroke is written to a session after a write had failed
C10_WrittenAgain ==
    /\ event.kind = "write"
    /\ event.calls # <<>>
    /\ event.calls[1].ok
    /\ status_message = Some("Write error")

\* the row of the primary checkout, as a room list that shows it holds it
PrimaryRow(w) ==
    [RoomInfo_from(list_worktrees_from(w.disk, w.worktrees)[1])
        EXCEPT !.is_primary = TRUE]

\* w with the primary checkout in the room list and selected
AsPrimary(w) ==
    [w EXCEPT !.rooms = <<PrimaryRow(w)>> \o @, !.selected_index = 0]

\* w with the confirmation dialog open on the primary checkout, Confirm chosen
ConfirmingPrimary(w) ==
    [AsPrimary(w) EXCEPT
        !.confirm = [kind |-> "DeleteRoom", room_name |-> PrimaryRow(w).name,
                     dirty_status |-> Some("clean"), selected_confirm |-> TRUE]]

\* x leaves the checkouts, the directories and the room list as w has them
PrimaryKept(w, x) ==
    /\ x.worktrees = w.worktrees
    /\ x.disk = w.disk
    /\ x.rooms = w.rooms
    /\ ~(x.kind = "delete" /\ x.ok)

\* the request is turned down before anything is asked of git
Refused(w, x) ==
    /\ PrimaryKept(w, x)
    /\ x.kind = "none"
    /\ x.confirm = w.confirm
    /\ x.status_message = Some("Cannot delete the primary worktree")

OnlyClosed(w, x) == x = [w EXCEPT !.confirm = NoConfirm]

\* C34: a confirmation dialog opens with Cancel selected; Enter hands the
\* room name to the deletion only when Delete is selected and otherwise only
\* closes the dialog; after Enter, Esc, n or y the dialog is closed; so with
\* Cancel selected no key but the quick confirm y deletes anything
C34_DialogDefaultsToCancel ==
    /\ (pc = "input" /\ confirm.kind = "None") =>
          \A x \in start_room_deletion(World) :
              x.confirm.kind # "None" =>
                  /\ x.confirm.kind = "DeleteRoom"
                  /\ ~x.confirm.selected_confirm
    /\ (pc = "input" /\ confirm.kind = "DeleteRoom") =>
          /\ \A x \in handle_confirm_key(World, "Tab") :
                x = [World EXCEPT !.confirm.selected_confirm =
                                      ~confirm.selected_confirm]
          /\ \A key \in {"Esc", "n"} :
             \A x \in handle_confirm_key(World, key) : OnlyClosed(World, x)
          /\ \A key \in {"Enter", "y"} :
             \A x \in handle_confirm_key(World, key) :
                /\ x.confirm.kind = "None"
                /\ x.kind = "delete" =>
                      /\ x.name = confirm.room_name
                      /\ confirm.selected_confirm \/ key = "y"
                /\ (key = "Enter" /\ ~confirm.selected_confirm) =>
                      OnlyClosed(World, x)

\* the selection of an open dialog was toggled to Delete
C34_Witness ==
    /\ confirm.kind = "DeleteRoom"
    /\ confirm.selected_confirm
    /\ pc = "frame"
    /\ rooms # <<>>

\* the one call of a step was a spawn for room name that failed
OnlyFailedSpawn(calls, name) ==
    /\ Len(calls) = 1
    /\ calls[1].call = "spawn"
    /\ calls[1].name = name
    /\ ~calls[1].ok

\* every way an Enter on the selected room can go from w starts with a
\* spawn for room name
SpawnsAgain(w, name) ==
    \A x \in enter_selected_room(w, FALSE) :
        /\ x.calls # <<>>
        /\ x.calls[1].call = "spawn"
        /\ x.calls[1].name = name

\* C32: when the shell of a room cannot be started on entering it, the
\* failure is reported in the same step, the session map gets no entry for
\* the room, the focus stays where it was, no hook line is written, and an
\* Enter on the same room afterwards spawns again
C32_FailedSpawnLeavesNoSession ==
    [][ (event'.kind = "enter" /\ ~event'.ok) =>
          /\ status_message' = Some("Failed to start shell")
          /\ OnlyFailedSpawn(event'.calls, event'.name)
          /\ sessions' = sessions
          /\ event'.name \notin DOMAIN sessions'
          /\ focus' = focus
          /\ focus' # "MainScene"
          /\ selected_room_info(World') # None
          /\ Unwrap(selected_room_info(World')).name = event'.name
          /\ SpawnsAgain(World', event'.name)
      ]_vars

\* a failed enter, followed by an enter of the same room that spawned it
C32_Witness ==
    /\ event.kind = "enter"
    /\ event.ok
    /\ faults > 0
    /\ status_message = Some("Failed to start shell")
    /\ CallsOf(event.calls, "spawn") = {1}
    /\ event.name \in DOMAIN sessions
    /\ focus = "MainScene"

\* w with rooms_dir and everything below it gone from the disk
WithoutRoomsDir(w) ==
    [w EXCEPT !.disk = { p \in @ : ~path_starts_with(p, rooms_dir) }]

\* x is w with a status message set, and nothing else of App changed
OnlyMessageSet(w, x) ==
    /\ x.status_message # None
    /\ x.rooms = w.rooms
    /\ x.selected_index = w.selected_index
    /\ x.sessions = w.sessions
    /\ x.transient = w.transient
    /\ x = [w EXCEPT !.status_message = x.status_message,
                     !.faults = x.faults, !.ret = FALSE]

\* C30: a refresh whose discovery fails, because the listing fails or
\* because rooms_dir is not a directory, leaves the room list, the selected
\* index, the sessions and the overlay as they were and only sets the status
\* message; after a failed refresh key the control loop draws its next frame
C30_FailedRefreshKeepsList ==
    /\ pc = "input" =>
          /\ \A x \in refresh_rooms(World) :
                ~x.ret => OnlyMessageSet(World, x)
          /\ \A x \in refresh_rooms(WithoutRoomsDir(World)) :
                /\ ~x.ret
                /\ OnlyMessageSet(WithoutRoomsDir(World), x)
    /\ (event.kind = "refresh" /\ ~event.ok) =>
          /\ pc = "frame"
          /\ status_message = Some("Failed to refresh rooms")

\* the refresh key failed with a room listed, selected and in session
C30_Witness ==
    /\ event.kind = "refresh"
    /\ ~event.ok
    /\ rooms # <<>>
    /\ DOMAIN sessions # {}
    /\ selected_index = Len(rooms) - 1
    /\ Len(rooms) > 1

\* C37: selected_index is an index into the room list, or 0 when the list
\* is empty; a refresh that succeeds leaves the selection on the room of
\* the name that was selected, whenever the new list has a room of that name
C37_SelectionFollowsName ==
    /\ IF rooms = <<>> THEN selected_index = 0 ELSE selected_index < Len(rooms)
    /\ pc = "input" =>
          \A x \in refresh_rooms(World) :
              /\ IF x.rooms = <<>> THEN x.selected_index = 0
                  ELSE x.selected_index < Len(x.rooms)
              /\ (x.ret /\ selected_name(World) # None
                   /\ position(x.rooms, Unwrap(selected_name(World))) # None)
                     => selected_name(x) = selected_name(World)

\* the refresh key succeeded with the selection on the last of several
\* rooms, a room the overlay marks as failed
C37_Witness ==
    /\ event.kind = "refresh"
    /\ event.ok
    /\ Len(rooms) > 1
    /\ selected_index = Len(rooms) - 1
    /\ rooms[selected_index + 1].last_error # None

\* the rooms the sidebar lists in its Failed section
FailedRoom(room) ==
    \/ room.is_prunable
    \/ room.status \in {"Error", "Orphaned"}
    \/ room.last_error # None

\* C39: Enter in the sidebar on a room of the Failed section starts no
\* session, makes no call on a session and leaves the focus on the sidebar;
\* on a room that is not prunable it only sets the status message, on a
\* prunable room it prunes and, when the prune succeeded, refreshes, then
\* sets the status message
C39_FailedRoomIsNotEntered ==
    (pc = "input" /\ confirm.kind = "None" /\ prompt.kind = "None"
     /\ focus = "Sidebar" /\ selected_room_info(World) # None
     /\ FailedRoom(Unwrap(selected_room_info(World)))) =>
        \A x \in handle_key(World, "Enter", <<>>) :
            /\ x.sessions = sessions
            /\ x.spawned = spawned
            /\ x.calls = <<>>
            /\ x.focus = "Sidebar"
            /\ x.status_message # None
            /\ x.prompt = prompt /\ x.confirm = confirm
            /\ x.transient = transient /\ x.disk = disk
            /\ IF ~Unwrap(selected_room_info(World)).is_prunable
               THEN x = [World EXCEPT !.status_message =
                                          Some("Cannot open failed worktree")]
               ELSE \E p \in prune_worktrees_from(World) :
                       IF p.ret
                       THEN /\ x.status_message = Some("Ran git worktree prune")
                            /\ \E y \in refresh_rooms(p) :
                                  x = [y EXCEPT !.status_message = x.status_message]
                       ELSE x = [p EXCEPT !.status_message =
                                              Some("Failed to prune worktrees")]

\* Enter was pressed on a room that has a session and an error in the
\* overlay
C39_Witness ==
    /\ pc = "frame"
    /\ status_message = Some("Cannot open failed worktree")
    /\ focus = "Sidebar"
    /\ selected_room_info(World) # None
    /\ Unwrap(selected_room_info(World)).last_error # None
    /\ Unwrap(selected_room_info(World)).name \in DOMAIN sessions
====
